---- MODULE Spec2Model ----
(***************************************************************************)
(* Ledger write path (submitSpotOrder and the FIFO lot bookkeeping of the  *)
(* bot runners) and the read-side replay of the live-stats hook of         *)
(* xMarket-bots.                                                           *)
(*                                                                         *)
(* Numbers.  JavaScript numbers are modelled as exact fixed-point values:  *)
(*   - quantities (order qty, lot qty, position qty) are integers counting *)
(*     units of 5e-10 share, so 1e-9 is 2 units and 1e-6 is 2000 units;    *)
(*   - prices (fillPrice, lot price) are integers counting whole currency  *)
(*     units;                                                              *)
(*   - money (cash, cost, pnl) is quantity * price, i.e. integers counting *)
(*     units of 5e-10 currency unit;                                       *)
(*   - avgPrice, a quotient money / quantity, is an integer counting 1e-6  *)
(*     currency unit;                                                      *)
(*   - timestamps are small naturals (milliseconds).                       *)
(* A value of unknown type (a call parameter, a field read back from the   *)
(* store) is a record [kind, v]: kind "number" with its value v, or kind   *)
(* "NaN", "Infinity" or "undefined".                                       *)
(***************************************************************************)
EXTENDS Integers, Sequences, FiniteSets, TLC

VARIABLES
    userDoc,      \* users/{uid}: [cash, initialCredits, ver]
    positions,    \* users/{uid}/positions/{symbol}: symbol -> position document
    orders,       \* users/{uid}/orders in commit order (append-only log)
    serverTime,   \* the store's clock: serverTimestamp() of the last commit
    pc,           \* per caller: where its submitSpotOrder call stands
    call,         \* per caller: the SpotOrderParams of the call in progress
    snap,         \* per caller: the snapshots tx.get returned in this attempt
    result,       \* per caller: outcome of its last finished call
    attempts,     \* per caller: runs of the transaction body in its last call
    started,      \* number of submitSpotOrder calls started so far
    fills,        \* read side: the normalized orders handed to the replay
    closed,       \* read side: buildClosedTradeEntries(fills)
    account,      \* read side: the initialCredits and totalValue handed to computeBotStats
    stats,        \* read side: computeBotStats(account..., fills)
    rawDocs,      \* read side: raw order documents as getDocs returns them
    clock,        \* read side: Date.now() at the last computation
    normalized,   \* read side: normalizeOrders(rawDocs)
    provision,    \* per provisioning run: where its ensureUserDocument call stands
    hookEnv,      \* what the last fetchData of the hook met: clock, price table
    hookState,    \* the hook's state: data, loading, error
    activation,   \* the activation-history script: history.json, the last run
    runner,       \* bot runs: how many started, and what each runner's last run read
    lifecycle,    \* a bot definition and the lifecycle state derived from it
    effect        \* one effect of the hook: cancelled, and the fetches it started

vars == <<userDoc, positions, orders, serverTime, pc, call, snap, result, attempts, started,
          fills, closed, account, stats, rawDocs, clock, normalized, provision,
          hookEnv, hookState, activation, runner, lifecycle, effect>>

ledgerVars == <<userDoc, positions, orders, serverTime, pc, call, snap, result, attempts,
                started>>

storeVars == <<userDoc, positions, orders, serverTime>>

statVars == <<fills, closed, account, stats>>

normVars == <<rawDocs, clock, normalized>>

readVars == <<statVars, normVars>>

hookVars == <<hookEnv, hookState>>

extraVars == <<activation, runner, lifecycle, effect>>

-----------------------------------------------------------------------------
(* Program constants, in the units above.                                  *)

FIFO_EPSILON == 2            \* 1e-9 in units of 5e-10
STATS_EPSILON == 2000        \* 1e-6 in units of 5e-10
ROUND6_STEP == 2000          \* the 1e-6 grid of round6, in units of 5e-10
MILLION == 1000000           \* the factor 1e6 of round6

(* Bounds of the model.                                                    *)
MaxCalls == 3                \* calls of submitSpotOrder, single-writer model
MaxTxCalls == 2              \* calls of submitSpotOrder, concurrent model
NumCallers == 2              \* concurrent callers

Symbols == {"AAPL", "MSFT"}
Sides == {"buy", "sell"}

Num(n) == [kind |-> "number", v |-> n]
NaNVal == [kind |-> "NaN", v |-> 0]
InfinityVal == [kind |-> "Infinity", v |-> 0]
UndefinedVal == [kind |-> "undefined", v |-> 0]

\* Number.isFinite(value)
IsFinite(value) == value.kind = "number"

-----------------------------------------------------------------------------
(* Pure helpers of the bot runner.                                         *)

\* Math.round(value * 1e6) / 1e6 on a value counted in units of 5e-10:
\* Math.round rounds half up (towards +Infinity).
round6(value) == ((2 * value + ROUND6_STEP) \div (2 * ROUND6_STEP)) * ROUND6_STEP

\* round6 on a price counted in whole currency units.
round6Price(price) == ((2 * price * MILLION + 1) \div 2) \div MILLION

\* The quotient cut to 6 decimals (Math.floor for Math.round).
round6QuotientTruncated(totalCost, totalQty) ==
    LET q0 == totalCost \div totalQty
        r0 == totalCost % totalQty
        q1 == (r0 * 1000) \div totalQty
        r1 == (r0 * 1000) % totalQty
    IN  q0 * MILLION + q1 * 1000 + (r1 * 1000) \div totalQty

\* round6(totalCost / totalQty), the result counted in 1e-6 currency unit.
\* Long division in base 1000 keeps the intermediate products small.
round6Quotient(totalCost, totalQty) ==
    LET q0 == totalCost \div totalQty
        r0 == totalCost % totalQty
        q1 == (r0 * 1000) \div totalQty
        r1 == (r0 * 1000) % totalQty
        q2 == (2 * r1 * 1000 + totalQty) \div (2 * totalQty)
    IN  q0 * MILLION + q1 * 1000 + q2

sanitizeNumber(value) == IF IsFinite(value) THEN value ELSE UndefinedVal

RECURSIVE InsertByTs(_, _)
\* Insert lot after every element whose ts is <= lot.ts (stable).
InsertByTs(sorted, lot) ==
    IF sorted = <<>> THEN <<lot>>
    ELSE IF sorted[Len(sorted)].ts <= lot.ts THEN Append(sorted, lot)
    ELSE Append(InsertByTs(SubSeq(sorted, 1, Len(sorted) - 1), lot), sorted[Len(sorted)])

RECURSIVE SortByTs(_)
\* Array.prototype.sort((a, b) => a.ts - b.ts): stable, ascending by ts.
SortByTs(seq) ==
    IF seq = <<>> THEN <<>>
    ELSE InsertByTs(SortByTs(SubSeq(seq, 1, Len(seq) - 1)), seq[Len(seq)])

RECURSIVE FilterQtyAbove(_, _)
\* Array.prototype.filter((lot) => lot.qty > eps)
FilterQtyAbove(seq, eps) ==
    IF seq = <<>> THEN <<>>
    ELSE LET rest == FilterQtyAbove(Tail(seq), eps)
         IN  IF Head(seq).qty > eps THEN <<Head(seq)>> \o rest ELSE rest

RECURSIVE SumQty(_)
SumQty(lots) == IF lots = <<>> THEN 0 ELSE Head(lots).qty + SumQty(Tail(lots))

RECURSIVE SumCost(_)
SumCost(lots) ==
    IF lots = <<>> THEN 0 ELSE Head(lots).qty * Head(lots).price + SumCost(Tail(lots))

\* A reader of the stored lots that drops the lots of at most 1e-6.
normalizeFifoLotsAboveStatsEpsilon(raw) == SortByTs(FilterQtyAbove(raw, STATS_EPSILON))

\* normalizeFifoLots: the stored entries (numeric qty, price and ts, as the
\* transaction wrote them) with qty > FIFO_EPSILON, sorted by ts.
normalizeFifoLots(raw) == SortByTs(FilterQtyAbove(raw, FIFO_EPSILON))

\* computeCashAfterDelta: base is cash, else initialCredits, else the default.
\* (The default, 1 000 000 currency units, is only reached for a user
\* document holding neither field.)
DEFAULT_INITIAL_CASH == 1000000
computeCashAfterDelta(snapshot, delta) ==
    LET base == IF sanitizeNumber(snapshot.cash) # UndefinedVal THEN snapshot.cash.v
                ELSE IF sanitizeNumber(snapshot.initialCredits) # UndefinedVal
                     THEN snapshot.initialCredits.v
                     ELSE DEFAULT_INITIAL_CASH * ROUND6_STEP * MILLION
    IN  round6(base + delta)

RECURSIVE ConsumeNewestFirst(_, _, _)
\* A sell loop that walks the lots from the newest to the oldest.
ConsumeNewestFirst(lots, i, remaining) ==
    IF i > Len(lots) THEN [updated |-> <<>>, remaining |-> remaining]
    ELSE LET lot == lots[Len(lots) - i + 1]
         IN  IF remaining <= FIFO_EPSILON
             THEN LET rest == ConsumeNewestFirst(lots, i + 1, remaining)
                  IN  [updated |-> rest.updated \o <<lot>>, remaining |-> rest.remaining]
             ELSE LET consume == IF lot.qty < remaining THEN lot.qty ELSE remaining
                      leftover == lot.qty - consume
                      rest == ConsumeNewestFirst(lots, i + 1, remaining - consume)
                  IN  IF leftover > FIFO_EPSILON
                      THEN [updated |-> rest.updated \o <<[lot EXCEPT !.qty = round6(leftover)]>>,
                            remaining |-> rest.remaining]
                      ELSE rest

RECURSIVE ConsumeFifo(_, _, _)
\* The sell loop of computeFifoPositionPayload over currentLots[i..]:
\* returns the lots pushed to `updated` and what is left of `remaining`.
ConsumeFifo(lots, i, remaining) ==
    IF i > Len(lots) THEN [updated |-> <<>>, remaining |-> remaining]
    ELSE LET lot == lots[i]
         IN  IF remaining <= FIFO_EPSILON
             THEN LET rest == ConsumeFifo(lots, i + 1, remaining)
                  IN  [updated |-> <<lot>> \o rest.updated, remaining |-> rest.remaining]
             ELSE LET consume == IF lot.qty < remaining THEN lot.qty ELSE remaining
                      leftover == lot.qty - consume
                      rest == ConsumeFifo(lots, i + 1, remaining - consume)
                  IN  IF leftover > FIFO_EPSILON
                      THEN [updated |-> <<[lot EXCEPT !.qty = round6(leftover)]>> \o rest.updated,
                            remaining |-> rest.remaining]
                      ELSE rest

\* The tail of computeFifoPositionPayload without its sort.
FinishLotsUnsorted(nextLots) ==
    LET kept == FilterQtyAbove(nextLots, FIFO_EPSILON)
    IN  [i \in 1..Len(kept) |->
           [kept[i] EXCEPT !.qty = round6(kept[i].qty),
                           !.price = round6Price(kept[i].price)]]

\* The tail of computeFifoPositionPayload: filter, round, sort.
FinishLots(nextLots) ==
    LET kept == FilterQtyAbove(nextLots, FIFO_EPSILON)
        rounded == [i \in 1..Len(kept) |->
                      [kept[i] EXCEPT !.qty = round6(kept[i].qty),
                                      !.price = round6Price(kept[i].price)]]
    IN  SortByTs(rounded)

\* A sell loop whose shortfall is never reported.
InsufficientLotsIgnored(side, remaining) == FALSE

\* The check after the sell loop: whether "Insufficient FIFO lots to settle
\* sell order." is thrown.
InsufficientLots(side, remaining) == side = "sell" /\ remaining > FIFO_EPSILON

\* computeFifoPositionPayload: [ok |-> FALSE] stands for the thrown error.
computeFifoPositionPayload(snapshot, symbol, side, qty, price, ts) ==
    LET currentLots == normalizeFifoLots(IF snapshot.exists THEN snapshot.lots ELSE <<>>)
        sold == ConsumeFifo(currentLots, 1, qty)
        throws == InsufficientLots(side, sold.remaining)
        nextLots == FinishLots(
            IF side = "buy"
            THEN Append(currentLots, [qty |-> round6(qty), price |-> price, ts |-> ts])
            ELSE sold.updated)
        totalQty == SumQty(nextLots)
        totalCost == SumCost(nextLots)
        avgPrice == IF totalQty > FIFO_EPSILON THEN round6Quotient(totalCost, totalQty) ELSE 0
    IN  IF throws THEN [ok |-> FALSE]
        ELSE [ok |-> TRUE,
              symbol |-> symbol,
              qty |-> round6(totalQty),
              avgPrice |-> avgPrice,
              lots |-> nextLots,
              updatedAt |-> ts]

-----------------------------------------------------------------------------
(* Inputs.                                                                 *)

\* Quantities a caller may pass (units of 5e-10): 4e-7, 1e-6, 1e-6 + 5e-10
\* and 2e-6, and the values the guards of submitSpotOrder must reject.
ValidQtys == {800, 2000, 2001, 4000}
InvalidQtys == {Num(0), Num(-2000), NaNVal, InfinityVal}
ValidPrices == {1, 2}
InvalidPrices == {Num(0), Num(-1), NaNVal, InfinityVal}
LotTimestamps == {1, 2}

\* The smaller input sets of the concurrent model.
TxQtys == {800, 2000}
TxPrices == {1}
TxLotTimestamps == {1}

\* Starting balance written by ensureUserDocument (cash = initialCredits),
\* here 1e-5 currency unit.
InitialCredits == 20000

Callers == 1..NumCallers

SpotOrderParams(symbols, qtys, prices, lotTimestamps) ==
    [symbol : symbols, side : Sides, qty : qtys, fillPrice : prices,
     lotTimestamp : lotTimestamps]

\* Every parameter record drawn from the given sets, plus the records with
\* one invalid quantity or one invalid price.
AllParams(symbols, qtys, prices, lotTimestamps) ==
    LET okQ == {Num(q) : q \in qtys}
        okP == {Num(x) : x \in prices}
        oneQ == {Num(CHOOSE q \in qtys : TRUE)}
        oneP == {Num(CHOOSE x \in prices : TRUE)}
        oneT == {CHOOSE t \in lotTimestamps : TRUE}
    IN  SpotOrderParams(symbols, okQ, okP, lotTimestamps)
        \cup SpotOrderParams(symbols, InvalidQtys, oneP, oneT)
        \cup SpotOrderParams(symbols, oneQ, InvalidPrices, oneT)

NoCall == [symbol |-> "", side |-> "", qty |-> UndefinedVal, fillPrice |-> UndefinedVal,
           lotTimestamp |-> 0]

NoPosition == [exists |-> FALSE, qty |-> 0, avgPrice |-> 0, lots |-> <<>>,
               updatedAt |-> 0, ver |-> 0]

NoSnap == [read |-> FALSE, ver |-> 0, cash |-> UndefinedVal, initialCredits |-> UndefinedVal,
           exists |-> FALSE, lots |-> <<>>]
NoSnaps == [user |-> NoSnap, position |-> NoSnap]

-----------------------------------------------------------------------------
(* submitSpotOrder.                                                        *)

\* The guards without the zero case (qty < 0 for qty <= 0).
ParamsAcceptedZeroPasses(params) ==
    /\ ~(~IsFinite(params.qty) \/ params.qty.v < 0)
    /\ ~(~IsFinite(params.fillPrice) \/ params.fillPrice.v <= 0)

\* The guards at the head of submitSpotOrder.
ParamsAccepted(params) ==
    /\ ~(~IsFinite(params.qty) \/ params.qty.v <= 0)
    /\ ~(~IsFinite(params.fillPrice) \/ params.fillPrice.v <= 0)

\* tx.get(userRef) / tx.get(positionRef): the document as it is now,
\* with the version the commit will check.
ReadUser ==
    [read |-> TRUE, ver |-> userDoc.ver, cash |-> userDoc.cash,
     initialCredits |-> userDoc.initialCredits, exists |-> userDoc.exists, lots |-> <<>>]

ReadPosition(symbol) ==
    [read |-> TRUE, ver |-> positions[symbol].ver, cash |-> UndefinedVal,
     initialCredits |-> UndefinedVal, exists |-> positions[symbol].exists,
     lots |-> positions[symbol].lots]

\* The body of the transaction, from the two snapshots to the staged writes.
TxWrites(userSnap, positionSnap, params) ==
    LET qty == params.qty.v
        fillPrice == params.fillPrice.v
        cashDelta == (IF params.side = "buy" THEN -1 ELSE 1) * qty * fillPrice
        nextCash == computeCashAfterDelta(userSnap, cashDelta)
        positionPayload == computeFifoPositionPayload(
            positionSnap, params.symbol, params.side, qty, fillPrice, params.lotTimestamp)
    IN  [ok |-> positionPayload.ok,
         cash |-> nextCash,
         position |-> positionPayload,
         order |-> [symbol |-> params.symbol, side |-> params.side, qty |-> qty,
                    type |-> "MARKET", status |-> "filled", fillPrice |-> fillPrice]]

\* A commit that writes the payload into the position document of every
\* symbol.
ApplyWritesEverySymbol(w) ==
    /\ userDoc' = [userDoc EXCEPT !.exists = TRUE, !.cash = Num(w.cash), !.ver = @ + 1]
    /\ positions' = [s \in Symbols |->
                        [exists |-> TRUE,
                         qty |-> w.position.qty,
                         avgPrice |-> w.position.avgPrice,
                         lots |-> w.position.lots,
                         updatedAt |-> w.position.updatedAt,
                         ver |-> positions[s].ver + 1]]
    /\ serverTime' = serverTime + 1
    /\ orders' = Append(orders,
                        [symbol |-> w.order.symbol, side |-> w.order.side,
                         qty |-> w.order.qty, type |-> w.order.type,
                         status |-> w.order.status, fillPrice |-> w.order.fillPrice,
                         ts |-> serverTime + 1])

\* The commit of the three tx.set calls: cash merged into the user document,
\* the payload merged into the position document, the order record created
\* with the server's timestamp.
ApplyWrites(w) ==
    /\ userDoc' = [userDoc EXCEPT !.exists = TRUE, !.cash = Num(w.cash), !.ver = @ + 1]
    /\ positions' = [positions EXCEPT ![w.position.symbol] =
                        [exists |-> TRUE,
                         qty |-> w.position.qty,
                         avgPrice |-> w.position.avgPrice,
                         lots |-> w.position.lots,
                         updatedAt |-> w.position.updatedAt,
                         ver |-> @.ver + 1]]
    /\ serverTime' = serverTime + 1
    /\ orders' = Append(orders,
                        [symbol |-> w.order.symbol, side |-> w.order.side,
                         qty |-> w.order.qty, type |-> w.order.type,
                         status |-> w.order.status, fillPrice |-> w.order.fillPrice,
                         ts |-> serverTime + 1])

\* A commit that checks no version.
SnapshotsUnchecked(p) == TRUE

\* Whether the documents read in this attempt are still at the versions read.
SnapshotsCurrent(p) ==
    /\ snap[p].user.ver = userDoc.ver
    /\ snap[p].position.ver = positions[call[p].symbol].ver

-----------------------------------------------------------------------------
(* The read side: the live-stats hook replays the order log.               *)

Str(s) == [kind |-> "string", s |-> s]
Timestamp(ms) == [kind |-> "Timestamp", v |-> ms]

Min(a, b) == IF a < b THEN a ELSE b
Max(a, b) == IF a > b THEN a ELSE b
Abs(x) == IF x < 0 THEN -x ELSE x

\* The order documents getDocs returns for the log: id and data(), the ts
\* written by serverTimestamp() read back as a Timestamp.
OrderDocs(log) ==
    [i \in 1..Len(log) |->
        [id |-> "order" \o ToString(i),
         symbol |-> Str(log[i].symbol),
         side |-> Str(log[i].side),
         qty |-> Num(log[i].qty),
         fillPrice |-> Num(log[i].fillPrice),
         ts |-> Timestamp(log[i].ts)]]

\* String.prototype.toLowerCase on the side strings that occur.
ToLowerCase(str) ==
    CASE str = "BUY" -> "buy"
      [] str = "Buy" -> "buy"
      [] str = "SELL" -> "sell"
      [] str = "Sell" -> "sell"
      [] OTHER -> str

\* price <= STATS_EPSILON for a price counted in whole currency units.
PriceAtMostStatsEpsilon(price) == price * MILLION <= STATS_EPSILON \div ROUND6_STEP

\* The map callback with its quantity test off by the boundary (< for <=).
NormalizeOrderDocKeepsEpsilon(doc, now) ==
    LET symbolRaw == IF doc.symbol.kind = "string" THEN doc.symbol.s ELSE doc.id
        sideRaw == IF doc.side.kind = "string" THEN ToLowerCase(doc.side.s) ELSE ""
        qty == sanitizeNumber(doc.qty)
        fillPrice == sanitizeNumber(doc.fillPrice)
        ts == IF doc.ts.kind \in {"number", "Timestamp", "Date"} THEN doc.ts.v ELSE now
    IN  IF symbolRaw = "" \/ (sideRaw # "buy" /\ sideRaw # "sell") THEN <<>>
        ELSE IF qty.kind # "number" \/ fillPrice.kind # "number" THEN <<>>
        ELSE IF qty.v < STATS_EPSILON \/ PriceAtMostStatsEpsilon(fillPrice.v) THEN <<>>
        ELSE <<[symbol |-> symbolRaw, side |-> sideRaw, qty |-> qty.v,
                fillPrice |-> fillPrice.v, ts |-> ts]>>

\* The map callback of normalizeOrders: <<entry>>, or <<>> for null.
NormalizeOrderDoc(doc, now) ==
    LET symbolRaw == IF doc.symbol.kind = "string" THEN doc.symbol.s ELSE doc.id
        sideRaw == IF doc.side.kind = "string" THEN ToLowerCase(doc.side.s) ELSE ""
        qty == sanitizeNumber(doc.qty)
        fillPrice == sanitizeNumber(doc.fillPrice)
        ts == IF doc.ts.kind \in {"number", "Timestamp", "Date"} THEN doc.ts.v ELSE now
    IN  IF symbolRaw = "" \/ (sideRaw # "buy" /\ sideRaw # "sell") THEN <<>>
        ELSE IF qty.kind # "number" \/ fillPrice.kind # "number" THEN <<>>
        ELSE IF qty.v <= STATS_EPSILON \/ PriceAtMostStatsEpsilon(fillPrice.v) THEN <<>>
        ELSE <<[symbol |-> symbolRaw, side |-> sideRaw, qty |-> qty.v,
                fillPrice |-> fillPrice.v, ts |-> ts]>>

RECURSIVE NormalizeEach(_, _)
NormalizeEach(docs, now) ==
    IF docs = <<>> THEN <<>>
    ELSE NormalizeOrderDoc(Head(docs), now) \o NormalizeEach(Tail(docs), now)

\* normalizeOrders: map, drop the nulls, sort by ts (stable).
normalizeOrders(docs, now) == SortByTs(NormalizeEach(docs, now))

RECURSIVE ConsumeOpenLots(_, _)
\* The map callback of a sell in aggregateOpenPositions, with its running
\* `remaining`: the lots with what the sell takes removed, none dropped yet.
ConsumeOpenLots(lots, remaining) ==
    IF lots = <<>> THEN <<>>
    ELSE IF remaining <= STATS_EPSILON THEN lots
    ELSE LET lot == Head(lots)
             consume == Min(lot.qty, remaining)
         IN  <<[lot EXCEPT !.qty = lot.qty - consume]>>
             \o ConsumeOpenLots(Tail(lots), remaining - consume)

\* One iteration of the loop of aggregateOpenPositions.
ApplyOpenOrder(agg, order) ==
    IF order.side = "buy"
    THEN [agg EXCEPT !.lots = Append(@, [qty |-> order.qty, price |-> order.fillPrice,
                                         ts |-> order.ts]),
                     !.totalQty = @ + order.qty]
    ELSE [agg EXCEPT !.lots = FilterQtyAbove(ConsumeOpenLots(@, order.qty), STATS_EPSILON),
                     !.totalQty = Max(0, @ - order.qty)]

RECURSIVE FoldOpenOrders(_, _, _)
\* The loop of aggregateOpenPositions: the Map as its keys in insertion
\* order and the value of each key.
FoldOpenOrders(list, keys, perSymbol) ==
    IF list = <<>> THEN [keys |-> keys, perSymbol |-> perSymbol]
    ELSE LET order == Head(list)
             has == order.symbol \in DOMAIN perSymbol
             agg == IF has THEN perSymbol[order.symbol]
                    ELSE [symbol |-> order.symbol, lots |-> <<>>, totalQty |-> 0,
                          avgPrice |-> 0]
         IN  FoldOpenOrders(Tail(list),
                            IF has THEN keys ELSE Append(keys, order.symbol),
                            (order.symbol :> ApplyOpenOrder(agg, order)) @@ perSymbol)

\* The final map callback of aggregateOpenPositions.
FinishAggregate(agg) ==
    LET totalCost == SumCost(agg.lots)
        totalQty == SumQty(agg.lots)
        avgPrice == IF totalQty > STATS_EPSILON THEN round6Quotient(totalCost, totalQty) ELSE 0
        kept == FilterQtyAbove(agg.lots, STATS_EPSILON)
    IN  [symbol |-> agg.symbol,
         lots |-> [i \in 1..Len(kept) |->
                     [qty |-> round6(kept[i].qty), price |-> round6Price(kept[i].price),
                      ts |-> kept[i].ts]],
         totalQty |-> round6(totalQty),
         avgPrice |-> avgPrice]

NoSymbols == [s \in {} |-> 0]

\* An aggregation that leaves the sells out.
aggregateOpenPositionsIgnoringSells(list) ==
    LET buys == SelectSeq(list, LAMBDA order : order.side = "buy")
        folded == FoldOpenOrders(buys, <<>>, NoSymbols)
        all == [i \in 1..Len(folded.keys) |-> FinishAggregate(folded.perSymbol[folded.keys[i]])]
    IN  SelectSeq(all, LAMBDA agg : agg.totalQty > STATS_EPSILON)

aggregateOpenPositions(list) ==
    LET folded == FoldOpenOrders(list, <<>>, NoSymbols)
        all == [i \in 1..Len(folded.keys) |-> FinishAggregate(folded.perSymbol[folded.keys[i]])]
    IN  SelectSeq(all, LAMBDA agg : agg.totalQty > STATS_EPSILON)

\* The pnl of an entry with its sign inverted.
EntryPnlInverted(sellPrice, buyPrice, consume) == round6((buyPrice - sellPrice) * consume)

\* pnl of one closed-trade entry.
EntryPnl(sellPrice, buyPrice, consume) == round6((sellPrice - buyPrice) * consume)

RECURSIVE CloseAgainstLots(_, _, _)
\* The while loop of buildClosedTradeEntries for one sell: the entries it
\* pushes and the lots it leaves.
CloseAgainstLots(lots, order, remaining) ==
    IF ~(remaining > STATS_EPSILON /\ Len(lots) > 0)
    THEN [entries |-> <<>>, lots |-> lots]
    ELSE LET lot == lots[1]
             consume == Min(lot.qty, remaining)
             entry == [symbol |-> order.symbol,
                       qty |-> round6(consume),
                       buyPrice |-> lot.price,
                       sellPrice |-> order.fillPrice,
                       buyTs |-> lot.ts,
                       sellTs |-> order.ts,
                       pnl |-> EntryPnl(order.fillPrice, lot.price, consume)]
             lotQty == round6(lot.qty - consume)
             lotsAfter == IF lotQty <= STATS_EPSILON THEN Tail(lots)
                          ELSE <<[lot EXCEPT !.qty = lotQty]>> \o Tail(lots)
             rest == CloseAgainstLots(lotsAfter, order, round6(remaining - consume))
         IN  [entries |-> <<entry>> \o rest.entries, lots |-> rest.lots]

RECURSIVE FoldClosedTrades(_, _)
\* The loop of buildClosedTradeEntries over the orders.
FoldClosedTrades(list, perSymbol) ==
    IF list = <<>> THEN <<>>
    ELSE LET order == Head(list)
             lots == IF order.symbol \in DOMAIN perSymbol THEN perSymbol[order.symbol]
                     ELSE <<>>
         IN  IF order.side = "buy"
             THEN FoldClosedTrades(Tail(list),
                      (order.symbol :> Append(lots, [qty |-> order.qty,
                                                      price |-> order.fillPrice,
                                                      ts |-> order.ts])) @@ perSymbol)
             ELSE LET sold == CloseAgainstLots(lots, order, order.qty)
                  IN  sold.entries
                      \o FoldClosedTrades(Tail(list), (order.symbol :> sold.lots) @@ perSymbol)

\* A replay that books every buy of the list before its sells.
buildClosedTradeEntriesBuysFirst(list) ==
    FoldClosedTrades(SelectSeq(list, LAMBDA o : o.side = "buy")
                     \o SelectSeq(list, LAMBDA o : o.side = "sell"), NoSymbols)

buildClosedTradeEntries(list) == FoldClosedTrades(list, NoSymbols)

RECURSIVE Gcd(_, _)
Gcd(a, b) == IF b = 0 THEN a ELSE Gcd(b, a % b)

\* The quotient a / b of two numbers, b > 0, kept exact as a reduced fraction.
Ratio(a, b) ==
    IF a = 0 THEN [num |-> 0, den |-> 1]
    ELSE [num |-> a \div Gcd(Abs(a), b), den |-> b \div Gcd(Abs(a), b)]

ZeroRatio == [num |-> 0, den |-> 1]

RECURSIVE SettleAgainstBook(_, _, _, _)
\* The while loop of computeBotStats for one sell: the book it leaves, what
\* is left of the sell and the pnl it summed.
SettleAgainstBook(book, order, remaining, orderPnl) ==
    IF ~(remaining > STATS_EPSILON /\ Len(book) > 0)
    THEN [book |-> book, remaining |-> remaining, orderPnl |-> orderPnl]
    ELSE LET lot == book[1]
             consume == Min(lot.qty, remaining)
             lotQty == lot.qty - consume
             bookAfter == IF lotQty <= STATS_EPSILON THEN Tail(book)
                          ELSE <<[lot EXCEPT !.qty = lotQty]>> \o Tail(book)
         IN  SettleAgainstBook(bookAfter, order, remaining - consume,
                               orderPnl + (order.fillPrice - lot.price) * consume)

\* A win test with the threshold's sign slipped.
IsWinFromMinusEpsilon(orderPnl) == orderPnl > -STATS_EPSILON

\* orderPnl > STATS_EPSILON, pnl counted in units of 5e-10 currency unit.
IsWin(orderPnl) == orderPnl > STATS_EPSILON

\* orderPnl < -STATS_EPSILON
IsLoss(orderPnl) == orderPnl < -STATS_EPSILON

RECURSIVE FoldBotStats(_, _, _)
\* The loop of computeBotStats over the orders; acc holds realizedPnl,
\* wins, losses and closedTrades.
FoldBotStats(list, fifoBooks, acc) ==
    IF list = <<>> THEN acc
    ELSE LET order == Head(list)
             book == IF order.symbol \in DOMAIN fifoBooks THEN fifoBooks[order.symbol]
                     ELSE <<>>
         IN  IF order.side = "buy"
             THEN FoldBotStats(Tail(list),
                      (order.symbol :> Append(book, [qty |-> order.qty,
                                                      price |-> order.fillPrice]))
                          @@ fifoBooks,
                      acc)
             ELSE LET sold == SettleAgainstBook(book, order, order.qty, 0)
                      counted == sold.remaining <= STATS_EPSILON
                  IN  FoldBotStats(Tail(list),
                          (order.symbol :> sold.book) @@ fifoBooks,
                          IF ~counted THEN acc
                          ELSE [realizedPnl |-> acc.realizedPnl + sold.orderPnl,
                                closedTrades |-> acc.closedTrades + 1,
                                wins |-> acc.wins
                                           + (IF IsWin(sold.orderPnl) THEN 1 ELSE 0),
                                losses |-> acc.losses
                                           + (IF ~IsWin(sold.orderPnl) /\ IsLoss(sold.orderPnl)
                                              THEN 1 ELSE 0)])

\* A trade count that counts the sells only.
TradesCountSellsOnly(list) == Len(SelectSeq(list, LAMBDA order : order.side = "sell"))

\* tradesCount = orders.length
TradesCount(list) == Len(list)

\* A division guard that tests against 0 instead of STATS_EPSILON.
RoiGuardedAtZero(initialCredits, totalValue) ==
    IF initialCredits > 0 THEN Ratio(totalValue - initialCredits, initialCredits)
    ELSE ZeroRatio

\* roi = initialCredits > STATS_EPSILON ? (totalValue - initialCredits) / initialCredits : 0
Roi(initialCredits, totalValue) ==
    IF initialCredits > STATS_EPSILON THEN Ratio(totalValue - initialCredits, initialCredits)
    ELSE ZeroRatio

\* computeBotStats; initialCredits and totalValue in units of 5e-10 currency
\* unit, roi and winRate as exact fractions.
computeBotStats(initialCredits, totalValue, list) ==
    LET acc == FoldBotStats(list, NoSymbols,
                            [realizedPnl |-> 0, closedTrades |-> 0, wins |-> 0, losses |-> 0])
    IN  [tradesCount |-> TradesCount(list),
         pnl |-> round6(totalValue - initialCredits),
         roi |-> Roi(initialCredits, totalValue),
         realizedPnl |-> round6(acc.realizedPnl),
         wins |-> acc.wins,
         losses |-> acc.losses,
         winRate |-> IF acc.closedTrades > 0 THEN Ratio(acc.wins, acc.closedTrades)
                     ELSE ZeroRatio,
         closedTrades |-> acc.closedTrades]

-----------------------------------------------------------------------------
(* The live-stats hook: one run of fetchData.  Times are milliseconds.      *)

\* 1000 * 60 * 60 * 24 * 3
THREE_DAYS == 1000 * 60 * 60 * 24 * 3
MsPerDay == 1000 * 60 * 60 * 24

\* new Date(ms).toISOString(): the calendar day and the time of day, to the
\* millisecond.
toISOString(ms) == [day |-> ms \div MsPerDay, timeOfDay |-> ms % MsPerDay]

\* new Date(iso).getTime()
getTime(iso) == iso.day * MsPerDay + iso.timeOfDay

RECURSIVE MaxTs(_)
\* Math.max(...list.map((order) => order.ts)) of a non-empty list.
MaxTs(list) ==
    IF Len(list) = 1 THEN list[1].ts ELSE Max(list[1].ts, MaxTs(Tail(list)))

RECURSIVE MinTs(_)
MinTs(list) ==
    IF Len(list) = 1 THEN list[1].ts ELSE Min(list[1].ts, MinTs(Tail(list)))

NoDate == [defined |-> FALSE, iso |-> toISOString(0)]
IsoDate(ms) == [defined |-> TRUE, iso |-> toISOString(ms)]

firstTradeAt(normalizedOrders) ==
    IF Len(normalizedOrders) > 0 THEN IsoDate(MinTs(normalizedOrders)) ELSE NoDate

lastTradeAt(normalizedOrders) ==
    IF Len(normalizedOrders) > 0 THEN IsoDate(MaxTs(normalizedOrders)) ELSE NoDate

\* A status rule that still calls a fill of exactly 3 days active.
LiveStatusThreeDaysInclusive(last, trades, now) ==
    IF last.defined /\ now - getTime(last.iso) <= THREE_DAYS THEN "active"
    ELSE IF trades > 0 THEN "paused"
    ELSE "stopped"

\* The status expression of fetchData; an ISO string is never empty, so
\* lastTradeAt is truthy whenever it is defined.
LiveStatus(last, trades, now) ==
    IF last.defined /\ now - getTime(last.iso) < THREE_DAYS THEN "active"
    ELSE IF trades > 0 THEN "paused"
    ELSE "stopped"

\* What the price table answers for a symbol: an error, no row, or a row
\* with its close_value.
LookupError == [error |-> TRUE, row |-> FALSE, close_value |-> UndefinedVal]
LookupNoRow == [error |-> FALSE, row |-> FALSE, close_value |-> UndefinedVal]
LookupRow(value) == [error |-> FALSE, row |-> TRUE, close_value |-> value]

NullPrice == [kind |-> "null", v |-> 0]

\* fetchLatestPrice: null without a client, on an error, and when the value
\* read is not a finite number.
fetchLatestPrice(hasClient, answer) ==
    IF ~hasClient THEN NullPrice
    ELSE IF answer.error THEN NullPrice
    ELSE LET raw == IF answer.row THEN answer.close_value ELSE UndefinedVal
         IN  IF IsFinite(raw) THEN raw ELSE NullPrice

\* The truth value of `currentPrice` in `currentPrice ? ... : 0`.
Truthy(price) == price.kind = "number" /\ price.v # 0

\* A price counted in 1e-6 currency unit times a quantity, in money units;
\* exact for the whole prices that occur.
MicroPriceTimesQty(price, qty) ==
    (price \div MILLION) * qty + ((price % MILLION) * qty) \div MILLION

\* A position whose price is missing valued at its purchase price.
CurrentValueAtCost(currentPrice, avgPrice, qty) ==
    IF Truthy(currentPrice) THEN currentPrice.v * qty ELSE MicroPriceTimesQty(avgPrice, qty)

\* const currentValue = currentPrice ? currentPrice * qty : 0
CurrentValue(currentPrice, avgPrice, qty) ==
    IF Truthy(currentPrice) THEN currentPrice.v * qty ELSE 0

\* const pnl = currentPrice ? (currentPrice - avgPrice) * qty : 0
OpenPnl(currentPrice, avgPrice, qty) ==
    IF Truthy(currentPrice) THEN MicroPriceTimesQty(currentPrice.v * MILLION - avgPrice, qty)
    ELSE 0

\* The position documents getDocs returns, in document-id order.
PositionDocs(store) ==
    LET ids == <<"AAPL", "MSFT">>
        all == [i \in 1..Len(ids) |->
                  [id |-> ids[i], exists |-> store[ids[i]].exists, symbol |-> Str(ids[i]),
                   qty |-> Num(store[ids[i]].qty), avgPrice |-> Num(store[ids[i]].avgPrice),
                   updatedAt |-> store[ids[i]].updatedAt]]
    IN  SelectSeq(all, LAMBDA d : d.exists)

\* One iteration of the loop over positionsSnap.docs: <<trade>>, or <<>> when
\* the iteration ends in `continue`.  `lots` is <<>> for undefined.
OpenTrade(position, aggregatedPositions, hasClient, lookup, now) ==
    LET symbol == IF position.symbol.kind = "string" /\ position.symbol.s # ""
                  THEN position.symbol.s ELSE position.id
        found == SelectSeq(aggregatedPositions, LAMBDA entry : entry.symbol = symbol)
        qty == IF found # <<>> THEN found[1].totalQty
               ELSE IF sanitizeNumber(position.qty) # UndefinedVal THEN position.qty.v
               ELSE 0
        avgPrice == IF found # <<>> THEN found[1].avgPrice
                    ELSE IF position.avgPrice.kind = "number" THEN position.avgPrice.v
                    ELSE 0
        currentPrice == fetchLatestPrice(hasClient, lookup[symbol])
    IN  IF symbol = "" THEN <<>>
        ELSE IF Abs(qty) <= STATS_EPSILON THEN <<>>
        ELSE <<[id |-> symbol \o "-open",
                company |-> symbol,
                quantity |-> qty,
                purchasePrice |-> avgPrice,
                purchaseValue |-> MicroPriceTimesQty(avgPrice, qty),
                currentPrice |-> IF currentPrice = NullPrice THEN UndefinedVal
                                 ELSE currentPrice,
                currentValue |-> IF Truthy(currentPrice)
                                 THEN Num(CurrentValue(currentPrice, avgPrice, qty))
                                 ELSE UndefinedVal,
                added |-> CurrentValue(currentPrice, avgPrice, qty),
                pnl |-> OpenPnl(currentPrice, avgPrice, qty),
                purchaseDate |-> IF position.updatedAt # 0 THEN toISOString(position.updatedAt)
                                 ELSE toISOString(now),
                lots |-> IF found # <<>>
                         THEN [i \in 1..Len(found[1].lots) |->
                                 [qty |-> found[1].lots[i].qty,
                                  price |-> found[1].lots[i].price,
                                  purchaseDate |-> toISOString(found[1].lots[i].ts)]]
                         ELSE <<>>]>>

RECURSIVE OpenTrades(_, _, _, _, _)
\* The loop over positionsSnap.docs; `added` is what the iteration adds to
\* marketValue.
OpenTrades(docs, aggregatedPositions, hasClient, lookup, now) ==
    IF docs = <<>> THEN <<>>
    ELSE OpenTrade(Head(docs), aggregatedPositions, hasClient, lookup, now)
         \o OpenTrades(Tail(docs), aggregatedPositions, hasClient, lookup, now)

RECURSIVE SumAdded(_)
SumAdded(trades) == IF trades = <<>> THEN 0 ELSE Head(trades).added + SumAdded(Tail(trades))

RECURSIVE InsertBySellTsDescending(_, _)
InsertBySellTsDescending(sorted, entry) ==
    IF sorted = <<>> THEN <<entry>>
    ELSE IF Head(sorted).sellTs < entry.sellTs THEN <<entry>> \o sorted
    ELSE <<Head(sorted)>> \o InsertBySellTsDescending(Tail(sorted), entry)

RECURSIVE SortBySellTsDescending(_)
\* [...entries].sort((a, b) => b.sellTs - a.sellTs), stable.
SortBySellTsDescending(entries) ==
    IF entries = <<>> THEN <<>>
    ELSE InsertBySellTsDescending(SortBySellTsDescending(SubSeq(entries, 1, Len(entries) - 1)),
                                  entries[Len(entries)])

mapClosedTradeEntries(entries) ==
    LET sorted == SortBySellTsDescending(entries)
    IN  [i \in 1..Len(sorted) |->
            [company |-> sorted[i].symbol,
             quantity |-> round6(sorted[i].qty),
             purchasePrice |-> sorted[i].buyPrice,
             purchaseValue |-> round6(sorted[i].buyPrice * sorted[i].qty),
             sellPrice |-> sorted[i].sellPrice,
             sellValue |-> round6(sorted[i].sellPrice * sorted[i].qty),
             pnl |-> round6(sorted[i].pnl),
             purchaseDate |-> toISOString(sorted[i].buyTs),
             sellDate |-> toISOString(sorted[i].sellTs)]]

\* The hook's default when the user document has no usable initialCredits.
DEFAULT_INITIAL_CREDITS == DEFAULT_INITIAL_CASH * ROUND6_STEP * MILLION

\* The body of fetchData from the three snapshots to the overrides: `now` is
\* Date.now() while the documents are worked through, `later` Date.now() in
\* the status expression.
fetchData(user, log, store, hasClient, lookup, now, later) ==
    LET initialCredits == IF IsFinite(user.initialCredits) THEN user.initialCredits.v
                          ELSE DEFAULT_INITIAL_CREDITS
        cash == IF IsFinite(user.cash) THEN user.cash.v ELSE initialCredits
        normalizedOrders == normalizeOrders(OrderDocs(log), now)
        closedTrades == mapClosedTradeEntries(buildClosedTradeEntries(normalizedOrders))
        last == lastTradeAt(normalizedOrders)
        aggregatedPositions == aggregateOpenPositions(normalizedOrders)
        openTrades == OpenTrades(PositionDocs(store), aggregatedPositions, hasClient, lookup,
                                 now)
        marketValue == SumAdded(openTrades)
        totalValue == cash + marketValue
        botStats == computeBotStats(initialCredits, totalValue, normalizedOrders)
    IN  [roi |-> [num |-> botStats.roi.num * 100, den |-> botStats.roi.den],
         totalPnL |-> botStats.pnl,
         trades |-> botStats.tradesCount,
         winRate |-> [num |-> botStats.winRate.num * 100, den |-> botStats.winRate.den],
         status |-> LiveStatus(last, botStats.tradesCount, later),
         openTrades |-> openTrades,
         closedTrades |-> closedTrades,
         liveMetrics |-> [cash |-> cash, initialCredits |-> initialCredits,
                          marketValue |-> marketValue, lastTradeAt |-> last],
         startDate |-> firstTradeAt(normalizedOrders)]

\* The error state: null, or the message of what fetchData caught.
NoError == ""

-----------------------------------------------------------------------------
(* The store at provisioning time: the user document written by            *)
(* ensureUserDocument, no position, no order.                              *)

InitStore ==
    /\ userDoc = [exists |-> TRUE, cash |-> Num(InitialCredits),
                  initialCredits |-> Num(InitialCredits), ver |-> 0]
    /\ positions = [s \in Symbols |-> NoPosition]
    /\ orders = <<>>
    /\ serverTime = 0

InitCallers ==
    /\ pc = [p \in Callers |-> "idle"]
    /\ call = [p \in Callers |-> NoCall]
    /\ snap = [p \in Callers |-> NoSnaps]
    /\ result = [p \in Callers |-> "none"]
    /\ attempts = [p \in Callers |-> 0]
    /\ started = 0

InitRead ==
    /\ fills = <<>>
    /\ closed = buildClosedTradeEntries(<<>>)
    /\ account = [initialCredits |-> InitialCredits, totalValue |-> InitialCredits]
    /\ stats = computeBotStats(InitialCredits, InitialCredits, <<>>)
    /\ rawDocs = <<>>
    /\ clock = 0
    /\ normalized = normalizeOrders(<<>>, 0)

NumProvisioners == 2
Provisioners == 1..NumProvisioners

InitProvision == provision = [q \in Provisioners |-> [pc |-> "idle", exists |-> FALSE]]

-----------------------------------------------------------------------------
(* The activation-history script (update-bot-activation-history.ts).       *)
(* A timestamp string is kept as whether Date.parse reads it and, if so,   *)
(* the ISO date it spells.                                                 *)

\* 1000 * 60 * 30
THIRTY_MINUTES == 1000 * 60 * 30

IsoString(ms) == [kind |-> "string", parses |-> TRUE, iso |-> toISOString(ms)]
UnparsedString == [kind |-> "string", parses |-> FALSE, iso |-> toISOString(0)]
NotATimestamp == [kind |-> "number", parses |-> FALSE, iso |-> toISOString(0)]

\* Date.parse(value) of a string
DateParse(value) == IF value.parses THEN Num(getTime(value.iso)) ELSE NaNVal

isActivationAction(value) == value = "activated" \/ value = "deactivated"

\* history.json: missing, JSON that is no array, or an array of entries.
MissingFile == [kind |-> "missing", entries |-> <<>>]
ObjectFile == [kind |-> "object", entries |-> <<>>]
ArrayFile(entries) == [kind |-> "array", entries |-> entries]

\* loadHistory: the entries with a string timestamp and a known action, [] for
\* JSON that is no array; `ok` is FALSE where it throws.
loadHistory(file) ==
    IF file.kind = "missing" THEN [ok |-> FALSE, history |-> <<>>]
    ELSE IF file.kind = "array"
    THEN [ok |-> TRUE,
          history |-> SelectSeq(file.entries,
                                LAMBDA entry : entry.timestamp.kind = "string"
                                               /\ isActivationAction(entry.action))]
    ELSE [ok |-> TRUE, history |-> <<>>]

\* A test that also skips an event exactly 30 minutes after the last one.
recentlySameActionInclusive(history, action, now) ==
    /\ Len(history) > 0
    /\ history[Len(history)].action = action
    /\ IsFinite(DateParse(history[Len(history)].timestamp))
    /\ IsFinite(DateParse(now))
    /\ DateParse(now).v - DateParse(history[Len(history)].timestamp).v <= THIRTY_MINUTES

\* recentlySameAction of main; a string that does not parse gives NaN like
\* the empty string does.
recentlySameAction(history, action, now) ==
    /\ Len(history) > 0
    /\ history[Len(history)].action = action
    /\ IsFinite(DateParse(history[Len(history)].timestamp))
    /\ IsFinite(DateParse(now))
    /\ DateParse(now).v - DateParse(history[Len(history)].timestamp).v < THIRTY_MINUTES

\* One run of main with its action argument at clock time `ms`: the exit and
\* the file it leaves.
RunHistoryScript(file, actionArg, ms) ==
    LET now == IsoString(ms)
        loaded == loadHistory(file)
    IN  IF ~isActivationAction(actionArg) THEN [exit |-> "usage", file |-> file]
        ELSE IF ~loaded.ok THEN [exit |-> "failed", file |-> file]
        ELSE IF recentlySameAction(loaded.history, actionArg, now)
        THEN [exit |-> "skipped", file |-> file]
        ELSE [exit |-> "recorded",
              file |-> ArrayFile(Append(loaded.history,
                                        [timestamp |-> now, action |-> actionArg]))]

NoRun == [action |-> "", now |-> 0, exit |-> "none"]

InitActivation == activation = [file |-> ArrayFile(<<>>), run |-> NoRun, runs |-> 0]

-----------------------------------------------------------------------------
(* deriveBotLifecycleState.                                                *)

\* An event field that is missing.
MissingTimestamp == [kind |-> "undefined", parses |-> FALSE, iso |-> toISOString(0)]
MissingAction == ""

\* parseTimestamp: 0 for a missing value and for a string that does not parse.
parseTimestamp(value) ==
    IF value.kind # "string" THEN 0
    ELSE IF IsFinite(DateParse(value)) THEN DateParse(value).v ELSE 0

RECURSIVE InsertByEventTs(_, _)
\* Insert event after every element whose parsed timestamp is <= its own.
InsertByEventTs(sorted, event) ==
    IF sorted = <<>> THEN <<event>>
    ELSE IF parseTimestamp(Head(sorted).timestamp) <= parseTimestamp(event.timestamp)
         THEN <<Head(sorted)>> \o InsertByEventTs(Tail(sorted), event)
         ELSE <<event>> \o sorted

\* The events left in the order they are stored.
SortByEventTsStoredOrder(events) == events

RECURSIVE SortByEventTs(_)
\* .sort((a, b) => parseTimestamp(a.timestamp) - parseTimestamp(b.timestamp)),
\* stable.
SortByEventTs(events) ==
    IF events = <<>> THEN <<>>
    ELSE InsertByEventTs(SortByEventTs(SubSeq(events, 1, Len(events) - 1)),
                         events[Len(events)])

\* <<>> stands for undefined.
deriveBotLifecycleState(bot) ==
    LET events == SortByEventTs(
                      SelectSeq(bot.activationHistory,
                                LAMBDA event : event.timestamp.kind = "string"
                                               /\ event.action # MissingAction))
        lastEvent == IF Len(events) > 0 THEN <<events[Len(events)]>> ELSE <<>>
        status == IF lastEvent # <<>>
                  THEN (IF lastEvent[1].action = "activated" THEN "active" ELSE "paused")
                  ELSE bot.status
        activated == SelectSeq(events, LAMBDA event : event.action = "activated")
    IN  [status |-> status,
         lastEvent |-> lastEvent,
         lastActivatedAt |-> IF activated # <<>> THEN <<activated[Len(activated)].timestamp>>
                             ELSE IF status = "active" THEN <<bot.startDate>>
                             ELSE <<>>,
         firstActivatedAt |-> IF activated # <<>> THEN <<activated[1].timestamp>>
                              ELSE <<bot.startDate>>]

\* The bot definitions before any event is stored.
BotStatuses == {"active", "paused", "stopped"}
BotStartDate == IsoString(0)
NewBot(status) == [status |-> status, startDate |-> BotStartDate, activationHistory |-> <<>>]

InitLifecycle ==
    lifecycle = [bot |-> NewBot("stopped"), state |-> deriveBotLifecycleState(NewBot("stopped"))]

\* The effect before its first fetchData(): `let cancelled = false`.
InitEffect == effect = [cancelled |-> FALSE, fetches |-> <<>>]

-----------------------------------------------------------------------------
(* One run of a bot: main of the Momentum runner.                          *)

\* a * b on the values a run multiplies: a product with NaN is NaN.
JsTimes(a, b) == IF IsFinite(a) /\ IsFinite(b) THEN Num(a.v * b.v) ELSE NaNVal

\* a >= b: false as soon as one side is NaN.
JsGreaterEq(a, b) == IsFinite(a) /\ IsFinite(b) /\ a.v >= b.v

\* A guard that submits every buy the strategy decides, whatever the cash.
BotOrderCashUnchecked(action, cash, qtyHeld, latest, lotSize) ==
    IF action = "buy" THEN "buy"
    ELSE IF action = "sell" /\ JsGreaterEq(qtyHeld, lotSize) THEN "sell"
    ELSE "none"

\* The if / else if after the strategy's decision: the side of the order the
\* run submits, "none" when it submits no order.
BotOrder(action, cash, qtyHeld, latest, lotSize) ==
    IF action = "buy" /\ JsGreaterEq(cash, JsTimes(latest, lotSize)) THEN "buy"
    ELSE IF action = "sell" /\ JsGreaterEq(qtyHeld, lotSize) THEN "sell"
    ELSE "none"

\* sanitizeNumber(userSnap.data()?.cash) ?? DEFAULT_INITIAL_CASH
BotCash(user) ==
    IF user.exists /\ sanitizeNumber(user.cash) # UndefinedVal THEN user.cash
    ELSE Num(DEFAULT_INITIAL_CASH * ROUND6_STEP * MILLION)

\* sanitizeNumber(positionSnap.data()?.qty) ?? 0
BotQtyHeld(position) == IF position.exists THEN Num(position.qty) ELSE Num(0)

NoBotRun == [cash |-> UndefinedVal, qtyHeld |-> UndefinedVal, latest |-> UndefinedVal,
             lotSize |-> UndefinedVal, action |-> "", side |-> "none"]

InitRunner == runner = [runs |-> 0, of |-> [r \in Callers |-> NoBotRun]]

\* useState(null), useState(Boolean(firestoreUid)), useState(null): `data`
\* is <<>> for null, <<overrides>> once a fetch has set it.
InitHook ==
    /\ hookEnv = [storeOk |-> TRUE, hasClient |-> FALSE,
                  lookup |-> [s \in Symbols |-> LookupNoRow], now |-> 0, later |-> 0]
    /\ hookState = [data |-> <<>>, loading |-> TRUE, error |-> NoError]

Init ==
    InitStore /\ InitCallers /\ InitRead /\ InitProvision /\ InitHook /\ InitActivation
    /\ InitRunner /\ InitLifecycle /\ InitEffect

-----------------------------------------------------------------------------
(* Concurrent callers: submitSpotOrder step by step.  runTransaction is    *)
(* the store's optimistic transaction: each tx.get reads the current       *)
(* document, the commit applies the writes only if every document read is  *)
(* unchanged, and otherwise the body runs again on fresh reads.            *)

TxParams == AllParams(Symbols, TxQtys, TxPrices, TxLotTimestamps)

\* A caller enters submitSpotOrder with parameters that pass the guards and
\* starts the transaction.
CallAccepted(p) ==
    /\ pc[p] = "idle"
    /\ started < MaxTxCalls
    /\ \E params \in TxParams :
          /\ ParamsAccepted(params)
          /\ call' = [call EXCEPT ![p] = params]
    /\ pc' = [pc EXCEPT ![p] = "tx"]
    /\ snap' = [snap EXCEPT ![p] = NoSnaps]
    /\ result' = [result EXCEPT ![p] = "none"]
    /\ attempts' = [attempts EXCEPT ![p] = 1]
    /\ started' = started + 1
    /\ UNCHANGED storeVars
    /\ UNCHANGED <<readVars, provision, hookVars, extraVars>>

\* A caller enters submitSpotOrder with parameters the guards reject: the
\* call throws before the transaction is started.
CallRejected(p) ==
    /\ pc[p] = "idle"
    /\ started < MaxTxCalls
    /\ \E params \in TxParams : ~ParamsAccepted(params)
    /\ result' = [result EXCEPT ![p] = "rejected"]
    /\ attempts' = [attempts EXCEPT ![p] = 0]
    /\ started' = started + 1
    /\ UNCHANGED <<storeVars, pc, call, snap>>
    /\ UNCHANGED <<readVars, provision, hookVars, extraVars>>

TxGetUser(p) ==
    /\ pc[p] = "tx"
    /\ ~snap[p].user.read
    /\ snap' = [snap EXCEPT ![p].user = ReadUser]
    /\ UNCHANGED <<storeVars, pc, call, result, attempts, started>>
    /\ UNCHANGED <<readVars, provision, hookVars, extraVars>>

TxGetPosition(p) ==
    /\ pc[p] = "tx"
    /\ ~snap[p].position.read
    /\ snap' = [snap EXCEPT ![p].position = ReadPosition(call[p].symbol)]
    /\ UNCHANGED <<storeVars, pc, call, result, attempts, started>>
    /\ UNCHANGED <<readVars, provision, hookVars, extraVars>>

\* Both reads are back and the body throws: the transaction is abandoned.
TxThrow(p) ==
    /\ pc[p] = "tx"
    /\ snap[p].user.read /\ snap[p].position.read
    /\ ~TxWrites(snap[p].user, snap[p].position, call[p]).ok
    /\ pc' = [pc EXCEPT ![p] = "idle"]
    /\ result' = [result EXCEPT ![p] = "insufficient"]
    /\ snap' = [snap EXCEPT ![p] = NoSnaps]
    /\ call' = [call EXCEPT ![p] = NoCall]
    /\ UNCHANGED <<storeVars, attempts, started>>
    /\ UNCHANGED <<readVars, provision, hookVars, extraVars>>

\* Both reads are back, the body staged its writes and the commit finds
\* the documents unchanged.
TxCommit(p) ==
    /\ pc[p] = "tx"
    /\ snap[p].user.read /\ snap[p].position.read
    /\ TxWrites(snap[p].user, snap[p].position, call[p]).ok
    /\ SnapshotsCurrent(p)
    /\ ApplyWrites(TxWrites(snap[p].user, snap[p].position, call[p]))
    /\ pc' = [pc EXCEPT ![p] = "idle"]
    /\ result' = [result EXCEPT ![p] = "committed"]
    /\ snap' = [snap EXCEPT ![p] = NoSnaps]
    /\ call' = [call EXCEPT ![p] = NoCall]
    /\ UNCHANGED <<attempts, started>>
    /\ UNCHANGED <<readVars, provision, hookVars, extraVars>>

\* A conflict whose staged writes reach the store before the body is run
\* again.
TxConflictWritten(p) ==
    /\ pc[p] = "tx"
    /\ snap[p].user.read /\ snap[p].position.read
    /\ TxWrites(snap[p].user, snap[p].position, call[p]).ok
    /\ ~SnapshotsCurrent(p)
    /\ ApplyWrites(TxWrites(snap[p].user, snap[p].position, call[p]))
    /\ snap' = [snap EXCEPT ![p] = NoSnaps]
    /\ attempts' = [attempts EXCEPT ![p] = @ + 1]
    /\ UNCHANGED <<pc, call, result, started>>
    /\ UNCHANGED <<readVars, provision, hookVars, extraVars>>

\* The commit finds a document changed since it was read: the body is run
\* again from fresh reads.
TxConflict(p) ==
    /\ pc[p] = "tx"
    /\ snap[p].user.read /\ snap[p].position.read
    /\ TxWrites(snap[p].user, snap[p].position, call[p]).ok
    /\ ~SnapshotsCurrent(p)
    /\ snap' = [snap EXCEPT ![p] = NoSnaps]
    /\ attempts' = [attempts EXCEPT ![p] = @ + 1]
    /\ UNCHANGED <<storeVars, pc, call, result, started>>
    /\ UNCHANGED <<readVars, provision, hookVars, extraVars>>

Next ==
    \E p \in Callers :
        \/ CallAccepted(p)
        \/ CallRejected(p)
        \/ TxGetUser(p)
        \/ TxGetPosition(p)
        \/ TxThrow(p)
        \/ TxCommit(p)
        \/ TxConflict(p)

Spec == Init /\ [][Next]_vars

-----------------------------------------------------------------------------
(* A single writer: each call of submitSpotOrder runs from entry to return *)
(* with no other writer in between, so its transaction reads the current   *)
(* documents and commits at the first attempt.  The caller is caller 1;    *)
(* call[1] keeps the parameters of its last call.                          *)

SeqSymbols == {"AAPL"}
SeqParams == AllParams(SeqSymbols, ValidQtys, ValidPrices, LotTimestamps)

SubmitRejected ==
    /\ started < MaxCalls
    /\ \E params \in SeqParams : ~ParamsAccepted(params)
    /\ call' = [call EXCEPT ![1] = NoCall]
    /\ result' = [result EXCEPT ![1] = "rejected"]
    /\ attempts' = [attempts EXCEPT ![1] = 0]
    /\ started' = started + 1
    /\ UNCHANGED <<storeVars, pc, snap>>
    /\ UNCHANGED <<readVars, provision, hookVars, extraVars>>

SubmitThrows ==
    /\ started < MaxCalls
    /\ \E params \in SeqParams :
          /\ ParamsAccepted(params)
          /\ ~TxWrites(ReadUser, ReadPosition(params.symbol), params).ok
          /\ call' = [call EXCEPT ![1] = params]
    /\ result' = [result EXCEPT ![1] = "insufficient"]
    /\ attempts' = [attempts EXCEPT ![1] = 1]
    /\ started' = started + 1
    /\ UNCHANGED <<storeVars, pc, snap>>
    /\ UNCHANGED <<readVars, provision, hookVars, extraVars>>

SubmitCommits ==
    /\ started < MaxCalls
    /\ \E params \in SeqParams :
          /\ ParamsAccepted(params)
          /\ TxWrites(ReadUser, ReadPosition(params.symbol), params).ok
          /\ ApplyWrites(TxWrites(ReadUser, ReadPosition(params.symbol), params))
          /\ call' = [call EXCEPT ![1] = params]
    /\ result' = [result EXCEPT ![1] = "committed"]
    /\ attempts' = [attempts EXCEPT ![1] = 1]
    /\ started' = started + 1
    /\ UNCHANGED <<pc, snap>>
    /\ UNCHANGED <<readVars, provision, hookVars, extraVars>>

NextSeq == SubmitRejected \/ SubmitThrows \/ SubmitCommits

SpecSeq == Init /\ [][NextSeq]_vars

-----------------------------------------------------------------------------
(* Properties of the ledger write path.                                    *)

RECURSIVE OrderValue(_, _)
\* Sum of qty * fillPrice over the logged orders of one side.
OrderValue(log, side) ==
    IF log = <<>> THEN 0
    ELSE (IF Head(log).side = side THEN Head(log).qty * Head(log).fillPrice ELSE 0)
         + OrderValue(Tail(log), side)

RECURSIVE OrderQty(_, _, _)
\* Sum of qty over the logged orders of one symbol and side.
OrderQty(log, symbol, side) ==
    IF log = <<>> THEN 0
    ELSE (IF Head(log).side = side /\ Head(log).symbol = symbol THEN Head(log).qty ELSE 0)
         + OrderQty(Tail(log), symbol, side)

RECURSIVE PositionWrites(_)
\* Number of writes applied to the position documents of the given symbols.
PositionWrites(symbols) ==
    IF symbols = {} THEN 0
    ELSE LET s == CHOOSE x \in symbols : TRUE
         IN  positions[s].ver + PositionWrites(symbols \ {s})

\* C1: submitSpotOrder is all-or-nothing: in every reachable state cash equals
\* the starting balance minus the sum of qty * fillPrice of the logged buys
\* plus that of the logged sells, and every logged order goes with exactly
\* one write of the cash and one write of a lot list.
C1_CashMatchesOrderLog ==
    /\ userDoc.cash.v = userDoc.initialCredits.v
                          - OrderValue(orders, "buy") + OrderValue(orders, "sell")
    /\ userDoc.ver = Len(orders)
    /\ PositionWrites(Symbols) = Len(orders)

\* The step in which caller p's transaction commits.
CommitStep(p) == pc[p] = "tx" /\ pc'[p] = "idle" /\ result'[p] = "committed"

\* C2: concurrent calls are serializable: every commit leaves the cash, the
\* position documents and the order log exactly as running the whole call
\* on the documents as they are at the commit would, and no other step
\* changes them; no commit computes from a value that was replaced.
C2_Serializable ==
    [][ /\ \A p \in Callers :
             CommitStep(p) =>
               LET symbol == call[p].symbol
                   w == TxWrites(ReadUser, ReadPosition(symbol), call[p])
               IN  /\ w.ok
                   /\ userDoc'.cash = Num(w.cash)
                   /\ positions'[symbol].lots = w.position.lots
                   /\ positions'[symbol].qty = w.position.qty
                   /\ positions'[symbol].avgPrice = w.position.avgPrice
                   /\ \A other \in Symbols \ {symbol} : positions'[other] = positions[other]
                   /\ Len(orders') = Len(orders) + 1
                   /\ SubSeq(orders', 1, Len(orders)) = orders
                   /\ orders'[Len(orders')].symbol = symbol
                   /\ orders'[Len(orders')].side = call[p].side
                   /\ orders'[Len(orders')].qty = call[p].qty.v
                   /\ orders'[Len(orders')].fillPrice = call[p].fillPrice.v
        /\ (\A p \in Callers : ~CommitStep(p)) => UNCHANGED <<userDoc, positions, orders>>
      ]_vars

\* Two callers have committed and one of them did so on a second run of its
\* transaction body, after the other's commit invalidated its reads.
C2_Witness ==
    \E p, q \in Callers :
        /\ p # q
        /\ result[p] = "committed" /\ result[q] = "committed"
        /\ attempts[q] >= 2
        /\ Len(orders) >= 2

\* C3 as stated: a sell whose quantity exceeds the total of the stored lots
\* fails and leaves cash, positions and the order log as they were.
C3_OversellRejected ==
    [][ (/\ started' = started + 1
         /\ call'[1].side = "sell"
         /\ call'[1].qty.v > SumQty(positions[call'[1].symbol].lots))
        => (result'[1] = "insufficient" /\ UNCHANGED <<userDoc, positions, orders>>)
      ]_vars

\* C3, amended: a sell whose quantity exceeds the total of the stored lots by
\* more than FIFO_EPSILON (1e-9) fails and leaves cash, positions and the
\* order log as they were.
C3_OversellBeyondEpsilonRejected ==
    [][ (/\ started' = started + 1
         /\ call'[1].side = "sell"
         /\ call'[1].qty.v > SumQty(positions[call'[1].symbol].lots) + FIFO_EPSILON)
        => (result'[1] = "insufficient" /\ UNCHANGED <<userDoc, positions, orders>>)
      ]_vars

\* A sell that exceeded a non-empty lot list has just been refused.
C3_Witness ==
    /\ result[1] = "insufficient"
    /\ call[1].side = "sell"
    /\ positions[call[1].symbol].lots # <<>>
    /\ call[1].qty.v > SumQty(positions[call[1].symbol].lots) + FIFO_EPSILON

\* C4: a call whose quantity or fill price is non-finite, zero or negative
\* never starts the transaction: no caller inside the transaction and no
\* logged order carries such a value, and the step that refuses a call
\* reads nothing and leaves cash, positions and the order log unchanged.
C4_InvalidInputRejected ==
    /\ [](\A p \in Callers :
            pc[p] = "tx" =>
              /\ call[p].qty.kind = "number" /\ call[p].qty.v > 0
              /\ call[p].fillPrice.kind = "number" /\ call[p].fillPrice.v > 0)
    /\ [](\A i \in 1..Len(orders) : orders[i].qty > 0 /\ orders[i].fillPrice > 0)
    /\ [][ (started' = started + 1 /\ pc' = pc)
           => (/\ \E p \in Callers : result'[p] = "rejected" /\ attempts'[p] = 0
               /\ UNCHANGED <<storeVars, snap>>) ]_vars

\* A call has been refused by the guards.
C4_Witness == \E p \in Callers : result[p] = "rejected" /\ started > 0

\* The step in which the single writer's call commits a sell.
SellCommitStep ==
    started' = started + 1 /\ result'[1] = "committed" /\ call'[1].side = "sell"

\* `after` is `before` without its first lots, the first lot kept possibly
\* with a smaller quantity, every later lot kept as it was.
SuffixWithReducedHead(before, after) ==
    \E k \in 0..Len(before) :
        /\ Len(after) = Len(before) - k
        /\ \A i \in 2..Len(after) : after[i] = before[k + i]
        /\ Len(after) >= 1 =>
             /\ after[1].price = before[k + 1].price
             /\ after[1].ts = before[k + 1].ts
             /\ after[1].qty <= before[k + 1].qty

\* C5: a committed sell smaller than the total held consumes the lots
\* oldest-first: the new lot list is a suffix of the previous list, only its
\* first lot may have a reduced quantity, every later lot is unchanged.
C5_SellConsumesOldestFirst ==
    [][ (SellCommitStep
         /\ call'[1].qty.v < SumQty(positions[call'[1].symbol].lots))
        => SuffixWithReducedHead(positions[call'[1].symbol].lots,
                                 positions'[call'[1].symbol].lots)
      ]_vars

\* Two buys then a sell that removed part of what was held and left two lots.
C5_Witness ==
    /\ Len(orders) = 3
    /\ orders[1].side = "buy" /\ orders[2].side = "buy" /\ orders[3].side = "sell"
    /\ result[1] = "committed"
    /\ Len(positions[call[1].symbol].lots) = 2
    /\ positions[call[1].symbol].lots[1].price # positions[call[1].symbol].lots[2].price
    /\ SumQty(positions[call[1].symbol].lots) < orders[1].qty + orders[2].qty

RECURSIVE NeverShort(_, _, _)
\* No prefix of the log sells more of the symbol than was bought before.
NeverShort(log, symbol, held) ==
    IF log = <<>> THEN TRUE
    ELSE LET o == Head(log)
             next == IF o.symbol # symbol THEN held
                     ELSE IF o.side = "buy" THEN held + o.qty ELSE held - o.qty
         IN  next >= 0 /\ NeverShort(Tail(log), symbol, next)

\* C6: when no sell oversells, bought minus sold equals the total of the
\* stored lots within 1e-6, for every accepted quantity.
C6_Conservation ==
    \A s \in Symbols :
        NeverShort(orders, s, 0) =>
            Abs(OrderQty(orders, s, "buy") - OrderQty(orders, s, "sell")
                - SumQty(positions[s].lots)) <= ROUND6_STEP

IsSortedByTs(lots) == \A i \in 1..(Len(lots) - 1) : lots[i].ts <= lots[i + 1].ts

\* C8: every stored lot list is sorted by timestamp ascending and holds no
\* lot whose quantity is at or below FIFO_EPSILON.
C8_LotsSortedAndPositive ==
    \A s \in Symbols :
        /\ IsSortedByTs(positions[s].lots)
        /\ \A i \in 1..Len(positions[s].lots) : positions[s].lots[i].qty > FIFO_EPSILON

\* Two lots are stored in timestamp order although the later-stamped one
\* was bought first, and a buy that rounds to no lot was committed.
C8_Witness ==
    \E s \in Symbols :
        /\ Len(orders) = 3
        /\ Len(positions[s].lots) = 2
        /\ positions[s].lots[1].ts < positions[s].lots[2].ts
        /\ orders[1].fillPrice = positions[s].lots[2].price
        /\ orders[2].fillPrice = positions[s].lots[1].price
        /\ positions[s].lots[1].price # positions[s].lots[2].price
        /\ orders[3].side = "buy"

\* floor and remainder of totalCost / totalQty counted in 1e-6 currency unit.
MeanFloor(totalCost, totalQty) ==
    LET r0 == totalCost % totalQty
        r1 == (r0 * 1000) % totalQty
    IN  (totalCost \div totalQty) * MILLION + ((r0 * 1000) \div totalQty) * 1000
        + (r1 * 1000) \div totalQty
MeanRemainder(totalCost, totalQty) ==
    (((((totalCost % totalQty) * 1000) % totalQty) * 1000) % totalQty)

\* C9 as stated: qty is the sum of the stored lot quantities and avgPrice is
\* exactly the quantity-weighted mean of the lot prices (0 without lots).
C9_DerivedFieldsExact ==
    \A s \in Symbols :
        LET lots == positions[s].lots
            total == SumQty(lots)
        IN  positions[s].exists =>
              /\ positions[s].qty = total
              /\ total > 0 => /\ positions[s].avgPrice = MeanFloor(SumCost(lots), total)
                              /\ MeanRemainder(SumCost(lots), total) = 0
              /\ total = 0 => positions[s].avgPrice = 0

\* C9, amended: qty is the sum of the stored lot quantities and avgPrice is
\* the quantity-weighted mean of the lot prices rounded to 6 decimals, half
\* up (0 without lots).
C9_DerivedFieldsRounded ==
    \A s \in Symbols :
        LET lots == positions[s].lots
            total == SumQty(lots)
            floor == MeanFloor(SumCost(lots), total)
            rem == MeanRemainder(SumCost(lots), total)
        IN  positions[s].exists =>
              /\ positions[s].qty = total
              /\ total > 0 =>
                   \/ positions[s].avgPrice = floor /\ 2 * rem < total
                   \/ positions[s].avgPrice = floor + 1 /\ 2 * rem >= total
              /\ total = 0 => positions[s].avgPrice = 0

\* A position whose mean lot price is no multiple of 1e-6, and was rounded up.
C9_Witness ==
    \E s \in Symbols :
        /\ positions[s].exists
        /\ Len(positions[s].lots) >= 2
        /\ MeanRemainder(SumCost(positions[s].lots), SumQty(positions[s].lots)) # 0
        /\ positions[s].avgPrice
             = MeanFloor(SumCost(positions[s].lots), SumQty(positions[s].lots)) + 1

-----------------------------------------------------------------------------
(* Provisioning next to a trading bot.  The bot's Auth user exists and its *)
(* user document does not yet; provisioning runs call ensureUserDocument,  *)
(* a get followed by a set outside any transaction, and the bot trades     *)
(* once the document is there.                                             *)

MaxProvisionTrades == 2
ProvisionParams ==
    [symbol : {"AAPL"}, side : Sides, qty : {Num(2000), Num(4000)},
     fillPrice : {Num(1), Num(2)}, lotTimestamp : {1}]

AbsentUserDoc ==
    [exists |-> FALSE, cash |-> UndefinedVal, initialCredits |-> UndefinedVal, ver |-> 0]

InitAbsent ==
    /\ userDoc = AbsentUserDoc
    /\ positions = [s \in Symbols |-> NoPosition]
    /\ orders = <<>>
    /\ serverTime = 0
    /\ InitCallers /\ InitRead /\ InitProvision /\ InitHook /\ InitActivation
    /\ InitRunner /\ InitLifecycle /\ InitEffect

\* const snap = await ref.get()
EnsureGet(q) ==
    /\ provision[q].pc = "idle"
    /\ provision' = [provision EXCEPT ![q] = [pc |-> "got", exists |-> userDoc.exists]]
    /\ UNCHANGED <<ledgerVars, readVars, hookVars, extraVars>>

\* if (!snap.exists) await ref.set({...}): the document is replaced whole.
EnsureSet(q) ==
    /\ provision[q].pc = "got"
    /\ ~provision[q].exists
    /\ userDoc' = [exists |-> TRUE, cash |-> Num(InitialCredits),
                   initialCredits |-> Num(InitialCredits), ver |-> userDoc.ver + 1]
    /\ provision' = [provision EXCEPT ![q].pc = "done"]
    /\ UNCHANGED <<positions, orders, serverTime, pc, call, snap, result, attempts, started,
                   readVars, hookVars, extraVars>>

\* snap.exists: ensureUserDocument returns without writing.
EnsureSkip(q) ==
    /\ provision[q].pc = "got"
    /\ provision[q].exists
    /\ provision' = [provision EXCEPT ![q].pc = "done"]
    /\ UNCHANGED <<ledgerVars, readVars, hookVars, extraVars>>

\* The bot's submitSpotOrder runs from entry to commit.
ProvisionedBotTrades ==
    /\ userDoc.exists
    /\ started < MaxProvisionTrades
    /\ \E params \in ProvisionParams :
          /\ ParamsAccepted(params)
          /\ TxWrites(ReadUser, ReadPosition(params.symbol), params).ok
          /\ ApplyWrites(TxWrites(ReadUser, ReadPosition(params.symbol), params))
          /\ call' = [call EXCEPT ![1] = params]
    /\ result' = [result EXCEPT ![1] = "committed"]
    /\ attempts' = [attempts EXCEPT ![1] = 1]
    /\ started' = started + 1
    /\ UNCHANGED <<pc, snap, readVars, provision, hookVars, extraVars>>

NextProvision ==
    \/ \E q \in Provisioners : EnsureGet(q) \/ EnsureSet(q) \/ EnsureSkip(q)
    \/ ProvisionedBotTrades

SpecProvision == InitAbsent /\ [][NextProvision]_vars

-----------------------------------------------------------------------------
(* The hook mounted on the account of a trading bot: the first fetchData   *)
(* of the effect, which ends with loading set to false.                    *)

MaxHookTrades == 2

HookParams ==
    [symbol : Symbols, side : Sides, qty : {Num(STATS_EPSILON), Num(4000)},
     fillPrice : {Num(2)}, lotTimestamp : {1}]

\* The bot's submitSpotOrder runs from entry to commit.
HookBotTrades ==
    /\ started < MaxHookTrades
    /\ \E params \in HookParams :
          /\ ParamsAccepted(params)
          /\ TxWrites(ReadUser, ReadPosition(params.symbol), params).ok
          /\ ApplyWrites(TxWrites(ReadUser, ReadPosition(params.symbol), params))
          /\ call' = [call EXCEPT ![1] = params]
    /\ result' = [result EXCEPT ![1] = "committed"]
    /\ attempts' = [attempts EXCEPT ![1] = 1]
    /\ started' = started + 1
    /\ UNCHANGED <<pc, snap, readVars, provision, hookVars, extraVars>>

\* What the price table can answer, and the hook's clock counted from the
\* server time of the last commit.
HookAnswers == {LookupError, LookupNoRow, LookupRow(Num(3))}
HookLookups == [Symbols -> HookAnswers]
HookOffsets == {-1, 0, THREE_DAYS - 1, THREE_DAYS}
HookDelays == {0, 1}

\* fetchData runs to setOverride(overrides).
FetchSucceeds ==
    /\ hookState.loading
    /\ \E hasClient \in BOOLEAN, lookup \in HookLookups, offset \in HookOffsets,
          delay \in HookDelays :
          /\ ~hasClient => lookup = [s \in Symbols |-> LookupNoRow]
          /\ hookEnv' = [storeOk |-> TRUE,
                         hasClient |-> hasClient, lookup |-> lookup,
                         now |-> serverTime + offset, later |-> serverTime + offset + delay]
          /\ hookState' = [data |-> <<fetchData(userDoc, orders, positions, hasClient, lookup,
                                                serverTime + offset,
                                                serverTime + offset + delay)>>,
                           loading |-> FALSE, error |-> NoError]
    /\ UNCHANGED <<ledgerVars, readVars, provision, extraVars>>

\* A read of the store rejects: fetchData ends in its catch block.
FetchFails ==
    /\ hookState.loading
    /\ hookEnv' = [hookEnv EXCEPT !.storeOk = FALSE]
    /\ hookState' = [hookState EXCEPT !.loading = FALSE, !.error = "unavailable"]
    /\ UNCHANGED <<ledgerVars, readVars, provision, extraVars>>

NextHook == HookBotTrades \/ FetchSucceeds \/ FetchFails

SpecHook == Init /\ [][NextHook]_vars

-----------------------------------------------------------------------------
(* Sequential runs of the activation-history script on one bot.            *)

MaxRuns == 3

\* What history.json can hold before the first run: nothing, an array with
\* an entry the loader drops, an event whose timestamp does not parse, JSON
\* that is no array, or no file.
InitialHistories ==
    {ArrayFile(<<>>),
     ArrayFile(<<[timestamp |-> IsoString(0), action |-> "activated"],
                 [timestamp |-> NotATimestamp, action |-> "deactivated"]>>),
     ArrayFile(<<[timestamp |-> IsoString(0), action |-> "paused"],
                 [timestamp |-> UnparsedString, action |-> "activated"]>>),
     ObjectFile,
     MissingFile}

ActionArgs == {"activated", "deactivated", "restart"}

\* The clock of a run, counted from the clock of the run before it.
RunOffsets == {-1, THIRTY_MINUTES - 1, THIRTY_MINUTES}

InitHistory ==
    /\ InitStore /\ InitCallers /\ InitRead /\ InitProvision /\ InitHook /\ InitRunner
    /\ InitLifecycle /\ InitEffect
    /\ \E file \in InitialHistories : activation = [file |-> file, run |-> NoRun, runs |-> 0]

RunScript ==
    /\ activation.runs < MaxRuns
    /\ \E actionArg \in ActionArgs, offset \in RunOffsets :
          LET ms == activation.run.now + offset
              ran == RunHistoryScript(activation.file, actionArg, ms)
          IN  activation' = [file |-> ran.file,
                             run |-> [action |-> actionArg, now |-> ms, exit |-> ran.exit],
                             runs |-> activation.runs + 1]
    /\ UNCHANGED <<ledgerVars, readVars, provision, hookVars, runner, lifecycle, effect>>

NextHistory == RunScript

SpecHistory == InitHistory /\ [][NextHistory]_vars

-----------------------------------------------------------------------------
(* Bot runs on one account.  A run reads the cash and the quantity held    *)
(* outside any transaction, takes the strategy's decision and submits at   *)
(* most one order through submitSpotOrder; the transaction of the order is *)
(* the one above, so the runs of two runners interleave at its reads and   *)
(* its commit.                                                             *)

MaxBotRuns == 3
BotSymbol == "AAPL"
\* The latest close: 3, and 0 (a finite price the order guard rejects).
BotPrices == {Num(3), Num(0)}
\* BOT_MOMENTUM_QTY: 2e-6, and NaN for a value that is no number.
BotLotSizes == {Num(4000), NaNVal}
\* What the strategy script answers.
BotActions == {"buy", "sell", "hold"}

\* main up to the call of submitSpotOrder, and the guards of that call.
RunStarts(r) ==
    /\ pc[r] = "idle"
    /\ runner.runs < MaxBotRuns
    /\ \E latest \in BotPrices, lotSize \in BotLotSizes, action \in BotActions :
          LET cash == BotCash(userDoc)
              qtyHeld == BotQtyHeld(positions[BotSymbol])
              side == BotOrder(action, cash, qtyHeld, latest, lotSize)
              params == [symbol |-> BotSymbol, side |-> side, qty |-> lotSize,
                         fillPrice |-> latest, lotTimestamp |-> serverTime + 1]
          IN  /\ runner' = [runs |-> runner.runs + 1,
                            of |-> [runner.of EXCEPT ![r] =
                                      [cash |-> cash, qtyHeld |-> qtyHeld, latest |-> latest,
                                       lotSize |-> lotSize, action |-> action,
                                       side |-> side]]]
              /\ IF side = "none"
                 THEN /\ result' = [result EXCEPT ![r] = "none"]
                      /\ attempts' = [attempts EXCEPT ![r] = 0]
                      /\ UNCHANGED <<pc, call, snap>>
                 ELSE IF ParamsAccepted(params)
                 THEN /\ call' = [call EXCEPT ![r] = params]
                      /\ pc' = [pc EXCEPT ![r] = "tx"]
                      /\ snap' = [snap EXCEPT ![r] = NoSnaps]
                      /\ result' = [result EXCEPT ![r] = "none"]
                      /\ attempts' = [attempts EXCEPT ![r] = 1]
                 ELSE /\ result' = [result EXCEPT ![r] = "rejected"]
                      /\ attempts' = [attempts EXCEPT ![r] = 0]
                      /\ UNCHANGED <<pc, call, snap>>
    /\ UNCHANGED <<storeVars, started>>
    /\ UNCHANGED <<readVars, provision, hookVars, activation, lifecycle, effect>>

NextRunner ==
    \E r \in Callers :
        \/ RunStarts(r)
        \/ TxGetUser(r)
        \/ TxGetPosition(r)
        \/ TxThrow(r)
        \/ TxCommit(r)
        \/ TxConflict(r)

SpecRunner == Init /\ [][NextRunner]_vars

-----------------------------------------------------------------------------
(* Lifecycle states derived from bot definitions whose activation history  *)
(* holds events in any stored order.                                       *)

MaxEvents == 3
\* Two instants, a string that does not parse, and no timestamp.
EventTimestamps == {IsoString(1), IsoString(2), UnparsedString, MissingTimestamp}
EventActions == {"activated", "deactivated", MissingAction}

InitDerive ==
    /\ InitStore /\ InitCallers /\ InitRead /\ InitProvision /\ InitHook /\ InitActivation
    /\ InitRunner /\ InitEffect
    /\ \E status \in BotStatuses :
          lifecycle = [bot |-> NewBot(status),
                       state |-> deriveBotLifecycleState(NewBot(status))]

\* One more event is in the stored history and the state is derived again.
StoreEvent ==
    /\ Len(lifecycle.bot.activationHistory) < MaxEvents
    /\ \E timestamp \in EventTimestamps, action \in EventActions :
          LET bot == [lifecycle.bot EXCEPT
                        !.activationHistory =
                            Append(@, [timestamp |-> timestamp, action |-> action])]
          IN  lifecycle' = [bot |-> bot, state |-> deriveBotLifecycleState(bot)]
    /\ UNCHANGED <<ledgerVars, readVars, provision, hookVars, activation, runner, effect>>

NextDerive == StoreEvent

SpecDerive == InitDerive /\ [][NextDerive]_vars

-----------------------------------------------------------------------------
(* One effect of the hook from its first fetchData() to its cleanup, with  *)
(* the fetches the interval starts while earlier ones are in flight.  A    *)
(* fetch reads the three collections (taken here as one read), computes    *)
(* the overrides and sets the state; the bot trades in between.            *)

MaxPolls == 2
MaxEffectTrades == 1
EffectParams == [symbol |-> "AAPL", side |-> "buy", qty |-> Num(4000), fillPrice |-> Num(2),
                 lotTimestamp |-> 1]

\* The bot's submitSpotOrder runs from entry to commit.
EffectBotTrades ==
    /\ started < MaxEffectTrades
    /\ TxWrites(ReadUser, ReadPosition(EffectParams.symbol), EffectParams).ok
    /\ ApplyWrites(TxWrites(ReadUser, ReadPosition(EffectParams.symbol), EffectParams))
    /\ call' = [call EXCEPT ![1] = EffectParams]
    /\ result' = [result EXCEPT ![1] = "committed"]
    /\ attempts' = [attempts EXCEPT ![1] = 1]
    /\ started' = started + 1
    /\ UNCHANGED <<pc, snap, readVars, provision, hookVars, extraVars>>

EffectUnchanged == UNCHANGED <<ledgerVars, readVars, provision, hookEnv, activation, runner,
                               lifecycle>>

\* fetchData() of the effect body, or of a tick of the interval: the fetch
\* starts with setLoading(true) and setError(null).
PollStarts ==
    /\ ~effect.cancelled
    /\ Len(effect.fetches) < MaxPolls
    /\ effect' = [effect EXCEPT !.fetches = Append(@, [phase |-> "started", overrides |-> <<>>])]
    /\ hookState' = [hookState EXCEPT !.loading = TRUE, !.error = NoError]
    /\ EffectUnchanged

\* The reads of fetch i are back and its overrides are computed.
PollReads(i) ==
    /\ i <= Len(effect.fetches)
    /\ effect.fetches[i].phase = "started"
    /\ effect' = [effect EXCEPT !.fetches[i] =
                     [phase |-> "read",
                      overrides |-> <<fetchData(userDoc, orders, positions, FALSE,
                                                [s \in Symbols |-> LookupNoRow],
                                                serverTime, serverTime)>>]]
    /\ UNCHANGED hookState
    /\ EffectUnchanged

\* A fetch whose failure is shown also after the cleanup.
PollFailsUnguarded(i) ==
    /\ i <= Len(effect.fetches)
    /\ effect.fetches[i].phase = "started"
    /\ effect' = [effect EXCEPT !.fetches[i].phase = "failed"]
    /\ hookState' = [hookState EXCEPT !.error = "unavailable", !.loading = FALSE]
    /\ EffectUnchanged

\* A read of fetch i rejects: the catch block.
PollFails(i) ==
    /\ i <= Len(effect.fetches)
    /\ effect.fetches[i].phase = "started"
    /\ effect' = [effect EXCEPT !.fetches[i].phase = "failed"]
    /\ IF ~effect.cancelled
       THEN hookState' = [hookState EXCEPT !.error = "unavailable", !.loading = FALSE]
       ELSE UNCHANGED hookState
    /\ EffectUnchanged

\* Fetch i reaches the end of its try block.
PollSucceeds(i) ==
    /\ i <= Len(effect.fetches)
    /\ effect.fetches[i].phase = "read"
    /\ effect' = [effect EXCEPT !.fetches[i].phase = "done"]
    /\ IF ~effect.cancelled
       THEN hookState' = [hookState EXCEPT !.data = effect.fetches[i].overrides,
                                           !.loading = FALSE]
       ELSE UNCHANGED hookState
    /\ EffectUnchanged

\* The cleanup of the effect: cancelled = true; clearInterval(interval).
Cleanup ==
    /\ ~effect.cancelled
    /\ Len(effect.fetches) > 0
    /\ effect' = [effect EXCEPT !.cancelled = TRUE]
    /\ UNCHANGED hookState
    /\ EffectUnchanged

NextEffect ==
    \/ EffectBotTrades
    \/ PollStarts
    \/ Cleanup
    \/ \E i \in 1..MaxPolls :
          \/ PollReads(i)
          \/ PollFails(i)
          \/ PollSucceeds(i)

SpecEffect == Init /\ [][NextEffect]_vars

-----------------------------------------------------------------------------
(* Bot runs one after another: a run ends, its transaction included,       *)
(* before the next one reads.  The runner is runner 1.                     *)

\* BOT_MOMENTUM_QTY: 1e-6, 1e-6 + 5e-10 and 1.5e-6.
AloneLotSizes == {Num(2000), Num(2001), Num(3000)}
AlonePrices == {Num(1)}

RunAlone ==
    /\ runner.runs < MaxBotRuns
    /\ \E latest \in AlonePrices, lotSize \in AloneLotSizes, action \in BotActions :
          LET cash == BotCash(userDoc)
              qtyHeld == BotQtyHeld(positions[BotSymbol])
              side == BotOrder(action, cash, qtyHeld, latest, lotSize)
              params == [symbol |-> BotSymbol, side |-> side, qty |-> lotSize,
                         fillPrice |-> latest, lotTimestamp |-> serverTime + 1]
              w == TxWrites(ReadUser, ReadPosition(BotSymbol), params)
          IN  /\ runner' = [runs |-> runner.runs + 1,
                            of |-> [runner.of EXCEPT ![1] =
                                      [cash |-> cash, qtyHeld |-> qtyHeld, latest |-> latest,
                                       lotSize |-> lotSize, action |-> action,
                                       side |-> side]]]
              /\ IF side = "none"
                 THEN /\ result' = [result EXCEPT ![1] = "none"]
                      /\ attempts' = [attempts EXCEPT ![1] = 0]
                      /\ UNCHANGED <<storeVars, call>>
                 ELSE IF ~ParamsAccepted(params)
                 THEN /\ result' = [result EXCEPT ![1] = "rejected"]
                      /\ attempts' = [attempts EXCEPT ![1] = 0]
                      /\ UNCHANGED <<storeVars, call>>
                 ELSE IF ~w.ok
                 THEN /\ result' = [result EXCEPT ![1] = "insufficient"]
                      /\ attempts' = [attempts EXCEPT ![1] = 1]
                      /\ call' = [call EXCEPT ![1] = params]
                      /\ UNCHANGED storeVars
                 ELSE /\ ApplyWrites(w)
                      /\ result' = [result EXCEPT ![1] = "committed"]
                      /\ attempts' = [attempts EXCEPT ![1] = 1]
                      /\ call' = [call EXCEPT ![1] = params]
    /\ UNCHANGED <<pc, snap, started>>
    /\ UNCHANGED <<readVars, provision, hookVars, activation, lifecycle, effect>>

NextAlone == RunAlone

SpecAlone == Init /\ [][NextAlone]_vars

-----------------------------------------------------------------------------
(* The replay functions applied to time-ordered lists of normalized        *)
(* orders, as normalizeOrders returns them: quantities and prices above    *)
(* STATS_EPSILON, timestamps ascending.                                    *)

MaxFills == 3
StatSymbols == {"AAPL"}
\* 1.4e-6, 2e-6, 3e-6 and 4e-6
StatQtys == {2800, 4000, 6000, 8000}
StatPrices == {1, 3}
\* initialCredits: -1e-5, 0, 1e-6 and 1.3e-5; totalValue: 7e-6, 1e-5 and 1.3e-5
StatCredits == {-20000, 0, 2000, 26000}
StatTotalValues == {14000, 20000, 26000}

\* One more order is in the log and the hook recomputes from the whole list.
AddFillFrom(qtys, prices) ==
    /\ Len(fills) < MaxFills
    /\ \E symbol \in StatSymbols, side \in Sides, qty \in qtys, price \in prices :
          fills' = Append(fills, [symbol |-> symbol, side |-> side, qty |-> qty,
                                  fillPrice |-> price, ts |-> Len(fills) + 1])
    /\ closed' = buildClosedTradeEntries(fills')
    /\ stats' = computeBotStats(account.initialCredits, account.totalValue, fills')
    /\ UNCHANGED <<ledgerVars, provision, hookVars, extraVars, account, normVars>>

AddFill == AddFillFrom(StatQtys, StatPrices)

\* The account's balance or the value of its holdings changed and the hook
\* recomputes the statistics over the same orders.
SetAccount ==
    /\ \E initialCredits \in StatCredits, totalValue \in StatTotalValues :
          /\ account' = [initialCredits |-> initialCredits, totalValue |-> totalValue]
          /\ account' # account
    /\ stats' = computeBotStats(account'.initialCredits, account'.totalValue, fills)
    /\ UNCHANGED <<ledgerVars, provision, hookVars, extraVars, fills, closed, normVars>>

NextStats == AddFill

SpecStats == Init /\ [][NextStats]_vars

\* The statistics over changing balances: fills of one quantity, every
\* initialCredits and totalValue.
AccountQtys == {4000}
AddAccountFill == AddFillFrom(AccountQtys, StatPrices)

NextAccount == SetAccount \/ AddAccountFill

SpecAccount == Init /\ [][NextAccount]_vars

\* Fill lists in which a sell can exceed a holding that is not a multiple
\* of 1e-6.
OversellQtys == {3000, 4000, 8000}
AddOversellFill == AddFillFrom(OversellQtys, StatPrices)
NextOversell == AddOversellFill
SpecOversell == Init /\ [][NextOversell]_vars

-----------------------------------------------------------------------------
(* normalizeOrders applied to raw order documents.                         *)

MaxDocs == 3

NotAString == [kind |-> "undefined", s |-> ""]

\* A well-formed document as submitSpotOrder writes it, under the given id.
GoodDoc(id) ==
    [id |-> id, symbol |-> Str("AAPL"), side |-> Str("buy"), qty |-> Num(4000),
     fillPrice |-> Num(1), ts |-> Timestamp(2)]

\* The documents a collection may hold under the given id: the well-formed
\* ones, with either side in either letter case and a ts of every kind, and
\* the documents with one field missing, mistyped or out of range.
RawDocs(id) ==
    {[GoodDoc(id) EXCEPT !.side = side, !.ts = ts] :
        side \in {Str("buy"), Str("SELL")},
        ts \in {Num(1), Timestamp(2), [kind |-> "Date", v |-> 3], UndefinedVal}}
    \cup {[GoodDoc(id) EXCEPT !.symbol = symbol] : symbol \in {NotAString, Str("")}}
    \cup {[GoodDoc(id) EXCEPT !.side = side] : side \in {NotAString, Str("hold")}}
    \cup {[GoodDoc(id) EXCEPT !.qty = qty] :
              qty \in {Num(STATS_EPSILON), Num(-4000), NaNVal, UndefinedVal}}
    \cup {[GoodDoc(id) EXCEPT !.fillPrice = price] :
              price \in {Num(0), InfinityVal, UndefinedVal}}

ClockValues == {2, 3}

\* One more document is in the collection and the list is normalized anew.
AddDoc ==
    /\ Len(rawDocs) < MaxDocs
    /\ \E doc \in RawDocs("order" \o ToString(Len(rawDocs) + 1)) :
          rawDocs' = Append(rawDocs, doc)
    /\ clock' \in ClockValues
    /\ normalized' = normalizeOrders(rawDocs', clock')
    /\ UNCHANGED <<ledgerVars, provision, hookVars, extraVars, statVars>>

NextNormalize == AddDoc

SpecNormalize == Init /\ [][NextNormalize]_vars

-----------------------------------------------------------------------------
(* Properties of the read side.                                            *)

\* The lots of one symbol as (qty, price) pairs, in list order.
QtyAndPrice(lots) == [i \in 1..Len(lots) |-> [qty |-> lots[i].qty, price |-> lots[i].price]]

\* The lots the replay of the order log shows for a symbol.
ReplayedLots(symbol) ==
    LET open == aggregateOpenPositions(normalizeOrders(OrderDocs(orders), serverTime))
        mine == SelectSeq(open, LAMBDA agg : agg.symbol = symbol)
    IN  IF mine = <<>> THEN <<>> ELSE mine[1].lots

\* C7: after any history committed fill by fill, the lot list stored for a
\* symbol has the same lots, quantities and prices, in the same order, as
\* the replay of the order log through aggregateOpenPositions over
\* normalizeOrders.
C7_ReplayAgreement ==
    \A s \in Symbols :
        QtyAndPrice(positions[s].lots) = QtyAndPrice(ReplayedLots(s))

Indices(seq) == 1..Len(seq)

RECURSIVE SumEntryQty(_, _)
\* Sum of the quantities of the entries at the given indices of `closed`.
SumEntryQty(entries, idx) ==
    IF idx = {} THEN 0
    ELSE LET k == CHOOSE x \in idx : TRUE
         IN  entries[k].qty + SumEntryQty(entries, idx \ {k})

\* Every entry pairs a sell of the list with an earlier buy of the same
\* symbol and carries the prices and timestamps of both.
EntriesPairSellWithLot(list, entries) ==
    \A k \in Indices(entries) :
        \E i, j \in Indices(list) :
            /\ i < j
            /\ list[i].side = "buy" /\ list[j].side = "sell"
            /\ list[i].symbol = entries[k].symbol /\ list[j].symbol = entries[k].symbol
            /\ entries[k].buyTs = list[i].ts /\ entries[k].buyPrice = list[i].fillPrice
            /\ entries[k].sellTs = list[j].ts /\ entries[k].sellPrice = list[j].fillPrice
            /\ entries[k].qty > 0

\* Entries follow the sells in time order; a sell has one entry per lot;
\* a lot is never taken from beyond its quantity, and only once every older
\* lot of the symbol is used up.
EntriesOldestFirst(list, entries) ==
    /\ \A k, m \in Indices(entries) :
          k < m => /\ entries[k].sellTs <= entries[m].sellTs
                   /\ entries[k].sellTs = entries[m].sellTs
                         /\ entries[k].symbol = entries[m].symbol
                      => entries[k].buyTs < entries[m].buyTs
    /\ \A i \in Indices(list) :
          list[i].side = "buy" =>
              SumEntryQty(entries, {k \in Indices(entries) :
                              entries[k].buyTs = list[i].ts}) <= list[i].qty
    /\ \A k \in Indices(entries), i \in Indices(list) :
          (list[i].side = "buy" /\ list[i].symbol = entries[k].symbol
              /\ list[i].ts < entries[k].buyTs)
          => SumEntryQty(entries, {m \in 1..k : entries[m].buyTs = list[i].ts}) = list[i].qty

\* The entries of a sell that does not exceed the quantity held sum to the
\* sell quantity.
EntriesCoverSell(list, entries) ==
    \A j \in Indices(list) :
        (list[j].side = "sell" /\ NeverShort(SubSeq(list, 1, j), list[j].symbol, 0))
        => SumEntryQty(entries, {k \in Indices(entries) : entries[k].sellTs = list[j].ts})
             = list[j].qty

\* Every quantity of the list is a multiple of one step that is a multiple
\* of 1e-6 and larger than 1e-6.
OnCommonStep(list) ==
    \E n \in 2..4 : \A i \in Indices(list) : list[i].qty % (n * ROUND6_STEP) = 0

\* C10 as stated: one entry per lot a sell consumes, oldest lot first, with
\* the amount taken from the lot, the lot's and the sell's price and
\* timestamp and pnl = (sellPrice - buyPrice) * quantity; the entries of a
\* sell that does not exceed the quantity held sum to the sell quantity.
C10_ClosedEntries ==
    /\ EntriesPairSellWithLot(fills, closed)
    /\ EntriesOldestFirst(fills, closed)
    /\ \A k \in Indices(closed) :
          closed[k].pnl = (closed[k].sellPrice - closed[k].buyPrice) * closed[k].qty
    /\ EntriesCoverSell(fills, closed)

\* C10, amended: the same for fill quantities that are all multiples of one
\* step that is a multiple of 1e-6 and larger than 1e-6 (whole shares, for
\* one), the pnl being rounded to 6 decimals.
C10_ClosedEntriesOnCommonStep ==
    OnCommonStep(fills) =>
        /\ EntriesPairSellWithLot(fills, closed)
        /\ EntriesOldestFirst(fills, closed)
        /\ \A k \in Indices(closed) :
              closed[k].pnl
                = round6((closed[k].sellPrice - closed[k].buyPrice) * closed[k].qty)
        /\ EntriesCoverSell(fills, closed)

\* Two buys on a common step, then a sell that uses up the older lot and
\* part of the newer one, at a gain on the first and none on the second.
C10_Witness ==
    /\ OnCommonStep(fills)
    /\ Len(fills) = 3 /\ Len(closed) = 2
    /\ fills[1].side = "buy" /\ fills[2].side = "buy" /\ fills[3].side = "sell"
    /\ closed[1].buyTs = 1 /\ closed[2].buyTs = 2
    /\ closed[1].qty = fills[1].qty
    /\ closed[2].qty < fills[2].qty
    /\ closed[1].pnl > 0 /\ closed[2].pnl = 0

-----------------------------------------------------------------------------
(* Properties of computeBotStats.                                          *)

RECURSIVE ExactSettle(_, _, _)
\* A sell matched oldest lot first in exact arithmetic, nothing rounded and
\* nothing dropped: the lots left, the part of the sell left unfilled and
\* the summed (sell price - buy price) * quantity.
ExactSettle(book, order, remaining) ==
    IF remaining = 0 \/ book = <<>>
    THEN [book |-> book, remaining |-> remaining, pnl |-> 0]
    ELSE LET lot == Head(book)
             consume == Min(lot.qty, remaining)
             rest == ExactSettle(IF consume = lot.qty THEN Tail(book)
                                 ELSE <<[lot EXCEPT !.qty = lot.qty - consume]>> \o Tail(book),
                                 order, remaining - consume)
         IN  [book |-> rest.book, remaining |-> rest.remaining,
              pnl |-> (order.fillPrice - lot.price) * consume + rest.pnl]

RECURSIVE ExactSells(_, _)
\* For every sell of the list, in order: what it leaves unfilled and its pnl.
ExactSells(list, books) ==
    IF list = <<>> THEN <<>>
    ELSE LET order == Head(list)
             book == IF order.symbol \in DOMAIN books THEN books[order.symbol] ELSE <<>>
         IN  IF order.side = "buy"
             THEN ExactSells(Tail(list),
                      (order.symbol :> Append(book, [qty |-> order.qty,
                                                      price |-> order.fillPrice])) @@ books)
             ELSE LET sold == ExactSettle(book, order, order.qty)
                  IN  <<[remaining |-> sold.remaining, pnl |-> sold.pnl]>>
                      \o ExactSells(Tail(list), (order.symbol :> sold.book) @@ books)

\* The counters of computeBotStats agree with the sells of the list, a sell
\* being a closed trade when it is filled in full.
CountersMatchSells ==
    LET sells == ExactSells(fills, NoSymbols)
        closedSells == {k \in Indices(sells) : sells[k].remaining = 0}
    IN  /\ stats.closedTrades = Cardinality(closedSells)
        /\ stats.wins = Cardinality({k \in closedSells : sells[k].pnl > STATS_EPSILON})
        /\ stats.losses = Cardinality({k \in closedSells : sells[k].pnl < -STATS_EPSILON})

\* winRate = wins / closedTrades, or 0 without closed trades, and
\* wins + losses <= closedTrades.
WinRateFromCounters ==
    /\ stats.wins + stats.losses <= stats.closedTrades
    /\ IF stats.closedTrades > 0
       THEN stats.winRate.num * stats.closedTrades = stats.wins * stats.winRate.den
            /\ stats.winRate.den > 0
       ELSE stats.winRate = ZeroRatio

C12_TradesCountCountsFills ==
    LET sells == Len(SelectSeq(fills, LAMBDA order : order.side = "sell"))
    IN  /\ stats.tradesCount = Len(fills)
        /\ stats.closedTrades <= sells
        /\ sells <= stats.tradesCount

\* A buy, a sell that closes and a sell that closes nothing: three fills
\* counted, one closed trade.
C12_Witness ==
    /\ stats.tradesCount = 3
    /\ fills[1].side = "buy" /\ fills[2].side = "sell" /\ fills[3].side = "sell"
    /\ stats.closedTrades = 1

\* C13: roi is (totalValue - initialCredits) / initialCredits when
\* initialCredits exceeds 1e-6 and 0 otherwise; with no fills and
\* totalValue = initialCredits every figure is 0.
C13_RoiGuarded ==
    /\ IF account.initialCredits > STATS_EPSILON
       THEN stats.roi.num * account.initialCredits
              = (account.totalValue - account.initialCredits) * stats.roi.den
            /\ stats.roi.den > 0
       ELSE stats.roi = ZeroRatio
    /\ (fills = <<>> /\ account.totalValue = account.initialCredits)
       => /\ stats.pnl = 0
          /\ stats.roi = ZeroRatio
          /\ stats.tradesCount = 0
          /\ stats.winRate = ZeroRatio

\* initialCredits of exactly 1e-6 with a different totalValue: roi is 0.
C13_Witness ==
    /\ account.initialCredits = STATS_EPSILON
    /\ account.totalValue # account.initialCredits
    /\ stats.roi = ZeroRatio
    /\ stats.pnl # 0

-----------------------------------------------------------------------------
(* Properties of normalizeOrders.                                          *)

\* A finite number above 1e-6: a quantity in units of 5e-10, a price in
\* whole currency units.
QtyAboveEpsilon(value) == value.kind = "number" /\ value.v > STATS_EPSILON
PriceAboveEpsilon(value) == value.kind = "number" /\ value.v >= 1

\* The raw record has a non-empty symbol, side exactly buy or sell, and a
\* quantity and a fill price that are finite numbers above 1e-6.
RawWellFormed(doc) ==
    /\ doc.symbol.kind = "string" /\ doc.symbol.s # ""
    /\ doc.side.kind = "string" /\ doc.side.s \in {"buy", "sell"}
    /\ QtyAboveEpsilon(doc.qty) /\ PriceAboveEpsilon(doc.fillPrice)

\* The same, a record without a string symbol standing under its document
\* id and the side taken in any letter case.
RawAccepted(doc) ==
    /\ doc.symbol.kind = "string" => doc.symbol.s # ""
    /\ doc.side.kind = "string"
    /\ doc.side.s \in {"buy", "sell", "Buy", "Sell", "BUY", "SELL"}
    /\ QtyAboveEpsilon(doc.qty) /\ PriceAboveEpsilon(doc.fillPrice)

\* The fill a raw record stands for.
FillOf(doc) ==
    [symbol |-> IF doc.symbol.kind = "string" THEN doc.symbol.s ELSE doc.id,
     side |-> IF doc.side.s \in {"buy", "Buy", "BUY"} THEN "buy" ELSE "sell",
     qty |-> doc.qty.v,
     fillPrice |-> doc.fillPrice.v,
     ts |-> IF doc.ts.kind \in {"number", "Timestamp", "Date"} THEN doc.ts.v ELSE clock]

\* The normalized list holds well-formed fills only, in non-decreasing
\* timestamp order; it holds the fills of exactly the raw records at the
\* indices `kept`, those of equal timestamp in input order.
NormalizedKeeps(kept) ==
    /\ \A k \in Indices(normalized) :
          /\ normalized[k].symbol # ""
          /\ normalized[k].side \in {"buy", "sell"}
          /\ normalized[k].qty > STATS_EPSILON
          /\ normalized[k].fillPrice >= 1
    /\ \A k \in 1..(Len(normalized) - 1) : normalized[k].ts <= normalized[k + 1].ts
    /\ Len(normalized) = Cardinality(kept)
    /\ \E f \in [Indices(normalized) -> kept] :
          /\ \A k, m \in Indices(normalized) : k # m => f[k] # f[m]
          /\ \A k \in Indices(normalized) : normalized[k] = FillOf(rawDocs[f[k]])
          /\ \A k, m \in Indices(normalized) :
                (k < m /\ normalized[k].ts = normalized[m].ts) => f[k] < f[m]

\* C14 as stated: normalizeOrders returns well-formed fills only, in
\* non-decreasing timestamp order; every raw record without a non-empty
\* symbol, a side exactly buy or sell, or a finite quantity and fill price
\* above 1e-6 is dropped; records of equal timestamp keep their input order.
C14_KeepsWellFormedOnly ==
    NormalizedKeeps({i \in Indices(rawDocs) : RawWellFormed(rawDocs[i])})

\* C14, amended: the same, except that a raw record whose symbol is not a
\* string is kept under its document id and a side is accepted in any
\* letter case and returned in lower case.
C14_KeepsAcceptedOnly ==
    NormalizedKeeps({i \in Indices(rawDocs) : RawAccepted(rawDocs[i])})

\* Three documents: the first with the latest timestamp, the second dropped,
\* the third kept under its id and sorted to the front.
C14_Witness ==
    /\ Len(rawDocs) = 3 /\ Len(normalized) = 2
    /\ ~RawAccepted(rawDocs[2])
    /\ rawDocs[3].symbol = NotAString
    /\ normalized[1].symbol = "order3"
    /\ normalized[1].ts < normalized[2].ts
    /\ rawDocs[1].side = Str("SELL") /\ normalized[2].side = "sell"

-----------------------------------------------------------------------------
(* Properties of the account's cash.                                       *)

\* C15: once submitSpotOrder has committed, the cash field changes only in
\* the commit of a submitSpotOrder transaction; no other operation
\* overwrites a cash value a commit wrote.
C15_CashChangedByCommitOnly ==
    [][ (Len(orders) > 0 /\ userDoc'.cash # userDoc.cash)
        => Len(orders') = Len(orders) + 1 ]_vars

-----------------------------------------------------------------------------
(* Properties of the order log.                                            *)

\* C16: the order log is append-only and a commit touches only its own
\* symbol: a committing submitSpotOrder adds exactly one order record, with
\* status filled and the call's symbol, leaves the records written before
\* as they were and leaves the position documents of all other symbols
\* unchanged; no other step changes the log or a position document.
C16_AppendOnlyOwnSymbol ==
    [][ /\ \A p \in Callers :
             CommitStep(p) =>
               /\ Len(orders') = Len(orders) + 1
               /\ SubSeq(orders', 1, Len(orders)) = orders
               /\ orders'[Len(orders')].status = "filled"
               /\ orders'[Len(orders')].symbol = call[p].symbol
               /\ \A s \in Symbols \ {call[p].symbol} : positions'[s] = positions[s]
        /\ (\A p \in Callers : ~CommitStep(p)) =>
               (orders' = orders /\ positions' = positions)
      ]_vars

\* Two calls on different symbols have committed: two records, two position
\* documents.
C16_Witness ==
    /\ Len(orders) = 2
    /\ orders[1].symbol # orders[2].symbol
    /\ \A s \in Symbols : positions[s].exists

-----------------------------------------------------------------------------
(* Properties of a buy.                                                    *)

\* The step in which the single writer's call commits a buy.
BuyCommitStep ==
    started' = started + 1 /\ result'[1] = "committed" /\ call'[1].side = "buy"

\* C17: every committed buy appends exactly one lot with the bought
\* quantity, the fill price and the given timestamp at the tail of the
\* symbol's lot list and leaves the existing lots unchanged and in place,
\* for every accepted quantity and every lot timestamp.
C17_BuyAppendsLotAtTail ==
    [][ BuyCommitStep =>
          LET symbol == call'[1].symbol
          IN  positions'[symbol].lots =
                Append(positions[symbol].lots,
                       [qty |-> call'[1].qty.v, price |-> call'[1].fillPrice.v,
                        ts |-> call'[1].lotTimestamp]) ]_vars

-----------------------------------------------------------------------------
(* Properties of a sell beyond the quantity held.                          *)

RECURSIVE HeldTruncated(_, _, _)
\* The quantity of a symbol held after the list, a sell beyond the quantity
\* held leaving nothing.
HeldTruncated(list, symbol, held) ==
    IF list = <<>> THEN held
    ELSE LET o == Head(list)
             next == IF o.symbol # symbol THEN held
                     ELSE IF o.side = "buy" THEN held + o.qty ELSE Max(0, held - o.qty)
         IN  HeldTruncated(Tail(list), symbol, next)

HeldBefore(list, j) == HeldTruncated(SubSeq(list, 1, j - 1), list[j].symbol, 0)

Oversells(list, j) == list[j].side = "sell" /\ list[j].qty > HeldBefore(list, j)

EntriesOfSell(entries, order) ==
    {k \in Indices(entries) :
        entries[k].sellTs = order.ts /\ entries[k].symbol = order.symbol}

\* No entry pairs a sell with a buy that comes later in the list.
NoLaterBuyMatched(entries) == \A k \in Indices(entries) : entries[k].buyTs < entries[k].sellTs

\* After the sell at j the replay of its symbol goes on as from an empty
\* book: the later entries are those of the rest of the list alone.
RemainderDiscarded(list, entries, j) ==
    LET symbol == list[j].symbol
    IN  SelectSeq(entries, LAMBDA e : e.symbol = symbol /\ e.sellTs > list[j].ts)
          = buildClosedTradeEntries(
                SelectSeq(SubSeq(list, j + 1, Len(list)), LAMBDA o : o.symbol = symbol))

\* C18 as stated: a sell that exceeds all lots held produces entries only
\* for the quantity held, none if nothing is held, and no buy that comes
\* later is matched against it.
C18_OversellEntriesWithinHeld ==
    /\ NoLaterBuyMatched(closed)
    /\ \A j \in Indices(fills) :
          Oversells(fills, j) =>
              SumEntryQty(closed, EntriesOfSell(closed, fills[j])) <= HeldBefore(fills, j)

\* C18, amended: for fill quantities that are all multiples of one step that
\* is a multiple of 1e-6 and larger than 1e-6, the entries of a sell that
\* exceeds all lots held sum to the quantity held (none if nothing is held)
\* and the replay goes on as from an empty book; for every list the entry
\* quantities are rounded to 6 decimals and no entry pairs a sell with a
\* later buy.
C18_OversellTruncatedOnCommonStep ==
    /\ NoLaterBuyMatched(closed)
    /\ \A k \in Indices(closed) : closed[k].qty % ROUND6_STEP = 0
    /\ OnCommonStep(fills) =>
          \A j \in Indices(fills) :
              Oversells(fills, j) =>
                  /\ SumEntryQty(closed, EntriesOfSell(closed, fills[j]))
                       = HeldBefore(fills, j)
                  /\ RemainderDiscarded(fills, closed, j)

\* A sell with nothing held, then a buy, then a sell of twice the quantity
\* bought: one entry, for the quantity bought, against the second sell.
C18_Witness ==
    /\ Len(fills) = 3
    /\ OnCommonStep(fills)
    /\ Oversells(fills, 1) /\ fills[2].side = "buy" /\ Oversells(fills, 3)
    /\ fills[3].qty = 2 * fills[2].qty
    /\ Len(closed) = 1
    /\ closed[1].qty = fills[2].qty /\ closed[1].buyTs = 2 /\ closed[1].sellTs = 3

-----------------------------------------------------------------------------
(* Properties of the live-stats hook.                                      *)

\* The step in which a fetchData that read the store sets the overrides.
FetchStep == hookState.loading /\ ~hookState'.loading /\ hookEnv'.storeOk

\* C19: the status is active exactly when the most recent normalized fill
\* is less than 3 days old when the status is computed, paused when there
\* is a fill and the most recent one is 3 days old or older, and stopped
\* when there is no fill.
C19_StatusByAgeOfLastFill ==
    [][ FetchStep =>
          LET normalizedFills == normalizeOrders(OrderDocs(orders), hookEnv'.now)
              status == hookState'.data[1].status
              recent == /\ Len(normalizedFills) > 0
                        /\ \E i \in Indices(normalizedFills) :
                              hookEnv'.later - normalizedFills[i].ts < THREE_DAYS
          IN  /\ status = "active" <=> recent
              /\ status = "paused" <=> (Len(normalizedFills) > 0 /\ ~recent)
              /\ status = "stopped" <=> Len(normalizedFills) = 0 ]_vars

\* Two fills, the later one exactly 3 days old when the status is computed:
\* paused.
C19_Witness ==
    /\ hookState.data # <<>>
    /\ hookState.data[1].trades = 2
    /\ hookState.data[1].liveMetrics.lastTradeAt.defined
    /\ hookEnv.later - getTime(hookState.data[1].liveMetrics.lastTradeAt.iso) = THREE_DAYS
    /\ hookState.data[1].status = "paused"

\* The price of a symbol is unavailable: no client, a lookup error or no row.
PriceUnavailable(env, symbol) ==
    ~env.hasClient \/ env.lookup[symbol].error \/ ~env.lookup[symbol].row

RECURSIVE SumValued(_, _)
\* The value at the latest price of the open trades whose price is there.
SumValued(env, trades) ==
    IF trades = <<>> THEN 0
    ELSE (IF PriceUnavailable(env, Head(trades).company) THEN 0
          ELSE env.lookup[Head(trades).company].close_value.v * Head(trades).quantity)
         + SumValued(env, Tail(trades))

\* C20: with the price of a held symbol unavailable the computation still
\* completes and reports no error; that position adds 0 to marketValue and
\* has pnl 0, and the other positions are valued at their latest price.
C20_MissingPriceValuedZero ==
    [][ FetchStep =>
          LET env == hookEnv'
              data == hookState'.data
          IN  /\ hookState'.error = NoError /\ ~hookState'.loading /\ Len(data) = 1
              /\ \A i \in Indices(data[1].openTrades) :
                    LET trade == data[1].openTrades[i]
                        price == env.lookup[trade.company].close_value.v
                    IN  IF PriceUnavailable(env, trade.company)
                        THEN trade.pnl = 0 /\ trade.currentValue = UndefinedVal
                        ELSE /\ trade.currentValue = Num(price * trade.quantity)
                             /\ trade.pnl = price * trade.quantity - trade.purchaseValue
              /\ data[1].liveMetrics.marketValue = SumValued(env, data[1].openTrades)
              /\ \A symbol \in Symbols :
                    SumQty(positions[symbol].lots) > STATS_EPSILON
                    => \E i \in Indices(data[1].openTrades) :
                          data[1].openTrades[i].company = symbol ]_vars

\* Two symbols are held; the lookup of one fails or finds no row, the other
\* has a price: no error, the first adds nothing and has pnl 0, the second
\* is valued at its price.
C20_Witness ==
    /\ hookState.data # <<>> /\ hookState.error = NoError
    /\ hookEnv.hasClient
    /\ Len(hookState.data[1].openTrades) = 2
    /\ hookState.data[1].openTrades[1].currentPrice = UndefinedVal
    /\ hookState.data[1].openTrades[1].pnl = 0
    /\ hookState.data[1].openTrades[2].currentPrice = Num(3)
    /\ hookState.data[1].openTrades[2].pnl > 0
    /\ hookState.data[1].liveMetrics.marketValue
         = 3 * hookState.data[1].openTrades[2].quantity

-----------------------------------------------------------------------------
(* Properties of the activation history.                                   *)

\* The events of history.json a run works on.
ValidEvents(file) ==
    IF file.kind # "array" THEN <<>>
    ELSE SelectSeq(file.entries,
                   LAMBDA entry : entry.timestamp.kind = "string"
                                  /\ entry.action \in {"activated", "deactivated"})

\* The event repeats the action of `previous` less than 30 minutes after it.
RepeatsWithin30Minutes(previous, action, ms) ==
    /\ previous.action = action
    /\ previous.timestamp.parses
    /\ ms - getTime(previous.timestamp.iso) < THIRTY_MINUTES

-----------------------------------------------------------------------------
(* Bot runs.                                                               *)

\* The step that adds order number Len(orders) + 1 to the log.
OrderAdded == Len(orders') > Len(orders)

\* The guard of a buy and of a sell, on what run r read before deciding.
BuyGuardPassed(r) ==
    /\ runner.of[r].action = "buy"
    /\ IsFinite(runner.of[r].cash) /\ IsFinite(runner.of[r].latest)
    /\ IsFinite(runner.of[r].lotSize)
    /\ runner.of[r].cash.v >= runner.of[r].latest.v * runner.of[r].lotSize.v

SellGuardPassed(r) ==
    /\ runner.of[r].action = "sell"
    /\ IsFinite(runner.of[r].qtyHeld) /\ IsFinite(runner.of[r].lotSize)
    /\ runner.of[r].qtyHeld.v >= runner.of[r].lotSize.v

\* C22: a bot run submits at most one order.  Every order added to the log
\* is the one order of a run that had added none (result "none" before the
\* step, "committed" after), is one lot at the latest price, and is a buy
\* only when the decision was buy and the cash the run read covered price x
\* lot size, a sell only when the decision was sell and the quantity the run
\* read covered the lot size; a run whose guard failed starts no transaction.
C22_AtMostOneGuardedOrder ==
    [][/\ OrderAdded =>
            /\ Len(orders') = Len(orders) + 1
            /\ \E r \in Callers :
                  /\ CommitStep(r)
                  /\ result[r] = "none"
                  /\ orders'[Len(orders')].qty = runner.of[r].lotSize.v
                  /\ orders'[Len(orders')].fillPrice = runner.of[r].latest.v
                  /\ orders'[Len(orders')].side = "buy" => BuyGuardPassed(r)
                  /\ orders'[Len(orders')].side = "sell" => SellGuardPassed(r)
                  /\ \A q \in Callers \ {r} : result'[q] = result[q]
       /\ \A r \in Callers :
            (runner'.runs > runner.runs /\ runner'.of[r] # runner.of[r]
             /\ ~BuyGuardPassed(r)' /\ ~SellGuardPassed(r)')
            => pc'[r] = "idle" /\ orders' = orders]_vars

\* The second run decided to buy with too little cash left and submitted
\* nothing; the first run's buy is the only order.
C22_Witness ==
    /\ Len(orders) = 1 /\ orders[1].side = "buy"
    /\ \E r \in Callers :
          /\ runner.of[r].action = "buy" /\ runner.of[r].side = "none"
          /\ IsFinite(runner.of[r].lotSize) /\ runner.of[r].latest = Num(3)
          /\ runner.of[r].cash.v < 3 * runner.of[r].lotSize.v
          /\ pc[r] = "idle" /\ result[r] = "none"
    /\ runner.runs = 2

\* C24: the cash of an account that starts non-negative and is changed only
\* by bot runs is never negative, also when two runs overlap.
C24_CashNeverNegative == IsFinite(userDoc.cash) /\ userDoc.cash.v >= 0

\* A run of the single runner that decided to sell and read a quantity held
\* of at least the lot size.
SellRunStep ==
    /\ runner'.runs = runner.runs + 1
    /\ runner'.of[1].action = "sell"
    /\ runner'.of[1].qtyHeld.v >= runner'.of[1].lotSize.v

\* C25: with runs one after another, the qty field of the position equals
\* the total of its lots, and a sell that passes the guard qtyHeld >= lotSize
\* is never rejected for insufficient FIFO lots: it commits and the total of
\* the lots drops to what is left of them.
C25_GuardedSellNeverInsufficient ==
    [][/\ positions'[BotSymbol].qty = SumQty(positions'[BotSymbol].lots)
       /\ SellRunStep =>
            /\ result'[1] = "committed"
            /\ orders' = Append(orders, orders'[Len(orders')])
            /\ orders'[Len(orders')].side = "sell"
            /\ positions'[BotSymbol].qty
                 = round6(positions[BotSymbol].qty - runner'.of[1].lotSize.v)]_vars

\* A sell of 1.5e-6 out of a lot stored as 2e-6 committed and left a lot.
C25_Witness ==
    /\ runner.of[1].action = "sell" /\ runner.of[1].lotSize = Num(3000)
    /\ runner.of[1].qtyHeld = Num(4000)
    /\ result[1] = "committed"
    /\ positions[BotSymbol].qty > 0

-----------------------------------------------------------------------------
(* One call of submitSpotOrder under retries.                              *)

\* The transaction body of caller p is run again.
RetryStep(p) == pc[p] = "tx" /\ attempts'[p] = attempts[p] + 1

\* C26: one call of submitSpotOrder adds at most one order record and
\* applies its cash delta and lot change at most once, however many times
\* the body is re-executed: a re-execution writes nothing, keeps the call's
\* parameters (lot timestamp included) and reads again; the one commit of a
\* call computes from the cash and lots as they are at the commit; and the
\* log never holds more orders than calls that have ended.
C26_AppliedOncePerCall ==
    /\ [](Len(orders) + Cardinality({p \in Callers : pc[p] = "tx"}) <= started)
    /\ [][\A p \in Callers :
             /\ RetryStep(p) =>
                  /\ UNCHANGED storeVars
                  /\ call'[p] = call[p]
                  /\ ~snap'[p].user.read /\ ~snap'[p].position.read
             /\ CommitStep(p) =>
                  /\ result[p] = "none"
                  /\ snap[p].user.cash = userDoc.cash
                  /\ snap[p].position.lots = positions[call[p].symbol].lots
                  /\ Len(orders') = Len(orders) + 1
                  /\ userDoc'.cash.v
                       = round6(userDoc.cash.v
                                + (IF call[p].side = "buy" THEN -1 ELSE 1)
                                  * call[p].qty.v * call[p].fillPrice.v)
                  /\ positions'[call[p].symbol].lots
                       = computeFifoPositionPayload(
                             ReadPosition(call[p].symbol), call[p].symbol, call[p].side,
                             call[p].qty.v, call[p].fillPrice.v, call[p].lotTimestamp).lots
                  /\ \A s \in Symbols \ {call[p].symbol} : positions'[s] = positions[s]
      ]_vars

\* A call whose body ran twice has committed; the log holds one order per
\* call.
C26_Witness ==
    /\ \E p \in Callers : result[p] = "committed" /\ attempts[p] = 2 /\ pc[p] = "idle"
    /\ started = 2 /\ Len(orders) = 2
    /\ \A p \in Callers : pc[p] = "idle"

-----------------------------------------------------------------------------
(* The lifecycle state.                                                    *)

StoredEvents == lifecycle.bot.activationHistory
EventTs(i) == parseTimestamp(StoredEvents[i].timestamp)

\* The stored events with a timestamp and an action, and the activated ones.
ValidEventIndices ==
    {i \in 1..Len(StoredEvents) :
        StoredEvents[i].timestamp.kind = "string" /\ StoredEvents[i].action # MissingAction}
ActivatedIndices == {i \in ValidEventIndices : StoredEvents[i].action = "activated"}

StatusOfEvent(i) == IF StoredEvents[i].action = "activated" THEN "active" ELSE "paused"

\* i has the latest (earliest) timestamp among the events of S.
HasLatestTs(i, S) == i \in S /\ \A j \in S : EventTs(j) <= EventTs(i)
HasEarliestTs(i, S) == i \in S /\ \A j \in S : EventTs(j) >= EventTs(i)

\* The same, with equal timestamps ordered by position in the stored list.
LatestThenLastStored(i, S) ==
    HasLatestTs(i, S) /\ \A j \in S : EventTs(j) = EventTs(i) => j <= i
EarliestThenFirstStored(i, S) ==
    HasEarliestTs(i, S) /\ \A j \in S : EventTs(j) = EventTs(i) => j >= i

\* C23 as stated: whatever the stored order, the status is that of the
\* event with the latest timestamp (the bot's own without a valid event),
\* lastActivatedAt the timestamp of the latest activated event and
\* firstActivatedAt that of the earliest.
C23_StatusOfLatestEvent ==
    /\ ValidEventIndices = {} => lifecycle.state.status = lifecycle.bot.status
    /\ \A i \in ValidEventIndices :
          HasLatestTs(i, ValidEventIndices) => lifecycle.state.status = StatusOfEvent(i)
    /\ \A i \in ActivatedIndices :
          /\ HasLatestTs(i, ActivatedIndices)
                => lifecycle.state.lastActivatedAt = <<StoredEvents[i].timestamp>>
          /\ HasEarliestTs(i, ActivatedIndices)
                => lifecycle.state.firstActivatedAt = <<StoredEvents[i].timestamp>>

\* C23, amended: among events with the same parsed timestamp the one stored
\* later counts as the later one.  The status is that of the latest valid
\* event so ordered, lastActivatedAt the timestamp of the latest activated
\* event, firstActivatedAt that of the earliest; without activated event
\* firstActivatedAt is the start date, and lastActivatedAt the start date
\* when the status is active, undefined otherwise.
C23_StatusOfLatestThenLastStored ==
    /\ ValidEventIndices = {} => lifecycle.state.status = lifecycle.bot.status
    /\ \A i \in ValidEventIndices :
          LatestThenLastStored(i, ValidEventIndices)
             => /\ lifecycle.state.status = StatusOfEvent(i)
                /\ lifecycle.state.lastEvent = <<StoredEvents[i]>>
    /\ \A i \in ActivatedIndices :
          /\ LatestThenLastStored(i, ActivatedIndices)
                => lifecycle.state.lastActivatedAt = <<StoredEvents[i].timestamp>>
          /\ EarliestThenFirstStored(i, ActivatedIndices)
                => lifecycle.state.firstActivatedAt = <<StoredEvents[i].timestamp>>
    /\ ActivatedIndices = {} =>
          /\ lifecycle.state.firstActivatedAt = <<lifecycle.bot.startDate>>
          /\ lifecycle.state.lastActivatedAt
               = IF lifecycle.state.status = "active" THEN <<lifecycle.bot.startDate>>
                 ELSE <<>>

\* The latest event is stored first: a deactivation at instant 2 ahead of
\* two activations at instant 1.
C23_Witness ==
    /\ Len(StoredEvents) = 3
    /\ StoredEvents[1] = [timestamp |-> IsoString(2), action |-> "deactivated"]
    /\ StoredEvents[2].action = "activated" /\ StoredEvents[2].timestamp = IsoString(1)
    /\ StoredEvents[3].action = "activated" /\ StoredEvents[3].timestamp = IsoString(1)
    /\ lifecycle.state.status = "paused"
    /\ lifecycle.state.lastActivatedAt = <<IsoString(1)>>

-----------------------------------------------------------------------------
(* The effect of the hook.                                                 *)

\* C27: once the cleanup of the effect has run, no fetch the effect started
\* changes data, loading or error, whether it ends in success or in failure,
\* and no further fetch is started; the cleanup itself changes none of them.
C27_NoStateChangeAfterCleanup ==
    [][(effect.cancelled \/ effect'.cancelled) =>
          /\ hookState' = hookState
          /\ Len(effect'.fetches) = Len(effect.fetches)
          /\ effect'.cancelled]_vars

\* After the cleanup one fetch ended in success and one in failure; loading
\* is still as the later fetch set it, and the data is not what the first
\* fetch computed.
C27_Witness ==
    /\ effect.cancelled
    /\ Len(effect.fetches) = 2
    /\ effect.fetches[1].phase = "done" /\ effect.fetches[2].phase = "failed"
    /\ hookState.loading /\ hookState.error = NoError
    /\ hookState.data = <<>>

\* Every fetch the effect started has set the state.
AllPollsDone ==
    /\ ~effect.cancelled
    /\ Len(effect.fetches) >= 2
    /\ \A i \in 1..Len(effect.fetches) : effect.fetches[i].phase = "done"

\* C28: once overlapping polls of one effect have all completed, the data
\* exposed is the result of the fetch started last.
C28_LatestStartedFetchWins ==
    AllPollsDone => hookState.data = effect.fetches[Len(effect.fetches)].overrides

-----------------------------------------------------------------------------
(* The two replays of the hook against each other.                         *)

RECURSIVE SumEntryPnl(_, _)
\* Sum of the pnl of the entries at the given indices.
SumEntryPnl(entries, idx) ==
    IF idx = {} THEN 0
    ELSE LET k == CHOOSE x \in idx : TRUE
         IN  entries[k].pnl + SumEntryPnl(entries, idx \ {k})

\* The sell orders that appear in the closed-trade entries, by timestamp
\* (the fills of a list have pairwise different timestamps).
SellsInEntries == {closed[i].sellTs : i \in Indices(closed)}

\* C29: realizedPnl of computeBotStats is the sum of the pnl of the entries
\* of buildClosedTradeEntries for the same list, and closedTrades the number
\* of distinct sell orders in those entries, also when a sell exceeds the
\* quantity held.
C29_StatsMatchClosedEntries ==
    /\ stats.realizedPnl = SumEntryPnl(closed, Indices(closed))
    /\ stats.closedTrades = Cardinality(SellsInEntries)

RECURSIVE SumFillQty(_, _, _)
\* Sum of the quantities of the fills of one symbol and side.
SumFillQty(list, symbol, side) ==
    IF list = <<>> THEN 0
    ELSE (IF Head(list).symbol = symbol /\ Head(list).side = side THEN Head(list).qty ELSE 0)
         + SumFillQty(Tail(list), symbol, side)

\* The closed quantity and the open quantity the two replays give a symbol.
ClosedQty(symbol) ==
    SumEntryQty(closed, {i \in Indices(closed) : closed[i].symbol = symbol})

RECURSIVE SumOpenQty(_, _)
SumOpenQty(aggregated, symbol) ==
    IF aggregated = <<>> THEN 0
    ELSE (IF Head(aggregated).symbol = symbol THEN SumQty(Head(aggregated).lots) ELSE 0)
         + SumOpenQty(Tail(aggregated), symbol)

OpenQty(symbol) == SumOpenQty(aggregateOpenPositions(fills), symbol)

FillsOf(symbol) == Len(SelectSeq(fills, LAMBDA order : order.symbol = symbol))

\* C30 as stated: for every symbol the quantity bought is the quantity of
\* the closed entries plus the quantity of the open lots, within 1e-6 per
\* fill.
C30_BoughtIsClosedPlusOpen ==
    \A symbol \in StatSymbols :
        Abs(SumFillQty(fills, symbol, "buy") - (ClosedQty(symbol) + OpenQty(symbol)))
            <= FillsOf(symbol) * STATS_EPSILON

\* C30, amended: for fill quantities that are all multiples of one step
\* that is a multiple of 1e-6 and larger than 1e-6, the quantity bought of
\* every symbol is exactly the quantity of its closed entries plus the
\* quantity of its open lots.
C30_BoughtIsClosedPlusOpenOnCommonStep ==
    OnCommonStep(fills) =>
        \A symbol \in StatSymbols :
            SumFillQty(fills, symbol, "buy") = ClosedQty(symbol) + OpenQty(symbol)

\* Two buys and a sell that closed the first lot and part of the second:
\* part of what was bought is closed, the rest open.
C30_Witness ==
    /\ OnCommonStep(fills)
    /\ Len(fills) = 3 /\ fills[3].side = "sell" /\ fills[1].side = "buy" /\ fills[2].side = "buy"
    /\ Len(closed) = 2
    /\ OpenQty("AAPL") > 0
    /\ ClosedQty("AAPL") > fills[1].qty

====
